---- MODULE Spec2Model ----
(***************************************************************************)
(* Model of the frisbee framed connection engine (Conn, StreamConn) and of *)
(* the workers it runs: the write path (WriteMessage, bufio writer,        *)
(* flushLoop), the read path (readLoop, incoming queue, ReadMessage) and   *)
(* the state machine CONNECTED / PAUSED / CLOSED (pause, close,            *)
(* closeWithError, killGoroutines).  Bytes are modelled as naturals below  *)
(* 256; field widths are scaled by 1/4 (a 4-byte field is one cell, an     *)
(* 8-byte field is two cells) and buffers are scaled to a few cells.       *)
(***************************************************************************)
EXTENDS Integers, Sequences, FiniteSets, TLC

\* ------------------------------------------------------------------ bounds
\* scaled DefaultBufferSize of the reader scratch buffer and the bufio writer
BufSize == 10
\* scaled capacity of the incoming ring buffer
QueueSize == 2
\* number of API calls the application threads make in one behaviour
MaxOps == 2

\* ---------------------------------------------------------------- constants
CONNECTED == 0
CLOSED == 1
PAUSED == 2

\* wire layout of the header (package protocol)
ReservedSize == 1
FromSize == 1
ToSize == 1
IdSize == 2
OperationSize == 1
ContentLengthSize == 2
ReservedOffset == 0
FromOffset == ReservedOffset + ReservedSize
ToOffset == FromOffset + FromSize
IdOffset == ToOffset + ToSize
OperationOffset == IdOffset + IdSize
ContentLengthOffset == OperationOffset + OperationSize
MessageSize == ContentLengthOffset + ContentLengthSize
ReservedBytes == <<70>>

\* the reserved operation codes
HEARTBEAT == 1
STREAM == 2
STREAMCLOSE == 3

\* ------------------------------------------------------------------ helpers
Min(a, b) == IF a < b THEN a ELSE b

Take(s, k) == SubSeq(s, 1, Min(k, Len(s)))

Drop(s, k) == SubSeq(s, Min(k, Len(s)) + 1, Len(s))

IsPrefix(s, t) == Len(s) <= Len(t) /\ SubSeq(t, 1, Len(s)) = s

RECURSIVE Pow(_, _)
Pow(b, e) == IF e = 0 THEN 1 ELSE b * Pow(b, e - 1)

RECURSIVE Flatten(_)
Flatten(ss) == IF ss = <<>> THEN <<>> ELSE Head(ss) \o Flatten(Tail(ss))

\* copy(dst[at:], src): overwrite dst from 0-based offset at, as far as both reach
CopyInto(dst, at, src) ==
    [i \in 1..Len(dst) |->
        IF i > at /\ i - at <= Len(src) THEN src[i - at] ELSE dst[i]]

\* ------------------------------------------------------------ frame codec
\* binary.BigEndian.PutUint32 / PutUint64 on a field of w cells
PutUint(v, w) == [i \in 1..w |-> (v \div Pow(256, w - i)) % 256]

\* binary.BigEndian.Uint32 / Uint64
RECURSIVE Uint(_)
Uint(b) == IF b = <<>> THEN 0 ELSE Uint(SubSeq(b, 1, Len(b) - 1)) * 256 + b[Len(b)]

\* the header encoding of WriteMessage
Encode(m) ==
    ReservedBytes \o PutUint(m.From, FromSize) \o PutUint(m.To, ToSize)
        \o PutUint(m.Id, IdSize) \o PutUint(m.Operation, OperationSize)
        \o PutUint(m.ContentLength, ContentLengthSize)

\* the header encoding of StreamConn.Write and ReadFrom: From and To stay zero
EncodeStream(id, len) ==
    ReservedBytes \o PutUint(0, FromSize) \o PutUint(0, ToSize)
        \o PutUint(id, IdSize) \o PutUint(STREAM, OperationSize)
        \o PutUint(len, ContentLengthSize)

Field(b, off, size) == SubSeq(b, off + 1, off + size)

\* the header decoding of readLoop, on the MessageSize cells at buf[index:]
Decode(b) ==
    [From |-> Uint(Field(b, FromOffset, FromSize)),
     To |-> Uint(Field(b, ToOffset, ToSize)),
     Id |-> Uint(Field(b, IdOffset, IdSize)),
     Operation |-> Uint(Field(b, OperationOffset, OperationSize)),
     ContentLength |-> Uint(Field(b, ContentLengthOffset, ContentLengthSize))]

ValidReserved(b) == Field(b, ReservedOffset, ReservedSize) = ReservedBytes

\* a payload: nil, or a byte sequence
NilContent == [nil |-> TRUE, bytes |-> <<>>]
Content(s) == [nil |-> FALSE, bytes |-> s]

\* ------------------------------------------------- underlying stream, bufio
\* error of a write on the net.Conn: nil, or why it fails
ConnWriteErr(cn) ==
    IF cn.closes > 0 THEN "NetClosed"
    ELSE cn.wfault

\* bufio.Writer.Flush
BufFlush(w, cn) ==
    IF w.err # "nil" THEN [w |-> w, sent |-> cn.sent, err |-> w.err]
    ELSE IF w.buf = <<>> THEN [w |-> w, sent |-> cn.sent, err |-> "nil"]
    ELSE IF ConnWriteErr(cn) = "nil"
         THEN [w |-> [w EXCEPT !.buf = <<>>], sent |-> cn.sent \o w.buf, err |-> "nil"]
         ELSE [w |-> [w EXCEPT !.err = ConnWriteErr(cn)], sent |-> cn.sent,
               err |-> ConnWriteErr(cn)]

\* bufio.Writer.Write: what does not fit is flushed or written through
RECURSIVE BufWrite(_, _, _)
BufWrite(w, p, cn) ==
    IF w.err # "nil" THEN [w |-> w, sent |-> cn.sent, err |-> w.err]
    ELSE IF Len(p) > BufSize - Len(w.buf)
    THEN IF w.buf = <<>>
         THEN IF ConnWriteErr(cn) = "nil"
              THEN [w |-> w, sent |-> cn.sent \o p, err |-> "nil"]
              ELSE [w |-> [w EXCEPT !.err = ConnWriteErr(cn)], sent |-> cn.sent,
                    err |-> ConnWriteErr(cn)]
         ELSE LET k == BufSize - Len(w.buf)
                  fl == BufFlush([w EXCEPT !.buf = @ \o SubSeq(p, 1, k)], cn)
              IN  IF fl.err # "nil" THEN fl
                  ELSE BufWrite(fl.w, SubSeq(p, k + 1, Len(p)),
                                [cn EXCEPT !.sent = fl.sent])
    ELSE [w |-> [w EXCEPT !.buf = @ \o p], sent |-> cn.sent, err |-> "nil"]

\* if c.writer.Buffered() > 0 { err := c.writer.Flush() }
FlushBuffered(w, cn) ==
    IF w.buf = <<>> THEN [w |-> w, sent |-> cn.sent, err |-> "nil"]
    ELSE BufFlush(w, cn)

\* os.IsTimeout
IsTimeout(err) == err = "Timeout"

\* errors.Is(err, io.EOF) || errors.Is(err, io.ErrClosedPipe)
IsEOF(err) == err \in {"EOF", "ErrClosedPipe"}


\* ------------------------------------------------------------------- state
Threads == {"t1", "t2"}
Workers == {"reader", "flusher"}
\* the goroutine of Client.heartbeat
Heartbeats == {"heartbeat"}
Procs == Workers \cup Threads \cup Heartbeats

VARIABLES
    state,            \* Conn.state
    error,            \* Conn.error
    writer,           \* Conn.writer: [buf, err]
    flusher,          \* Conn.flusher: [n signals pending, closes]
    incomingMessages, \* Conn.incomingMessages: [q, closes]
    mu,               \* holder of the Conn mutex, or "none"
    wg,               \* Conn.wg
    conn,             \* Conn.conn, the underlying stream
    streamConns,      \* Conn.streamConns: stream id -> handle, 0 for none
    streams,          \* the StreamConn objects, by handle
    StreamConnCh,     \* Conn.StreamConnCh
    pc,               \* position of every worker and application thread
    call,             \* the call a process is in, with its locals
    rd,               \* locals of readLoop
    ret,              \* results of the application calls, in the order they returned
    nops,             \* number of application calls made
    panic,            \* "none", or the runtime panic that ended the process
    client,           \* the Client that owns the Conn: closed, heartbeatChannel, loops
    hist              \* history of the calls, read by the properties only

vars == <<state, error, writer, flusher, incomingMessages, mu, wg, conn,
          streamConns, streams, StreamConnCh, pc, call, rd, ret, nops, panic, client,
          hist>>

ZeroMessage == [From |-> 0, To |-> 0, Id |-> 0, Operation |-> 0, ContentLength |-> 0]

NoCall ==
    [op |-> "none", msg |-> ZeroMessage, content |-> NilContent, err |-> "nil",
     via |-> "none", path |-> "none", res |-> "nil", h |-> 0, total |-> 0,
     chunks |-> <<>>, checked |-> CONNECTED, seq |-> 0, len |-> 0]

NoRet ==
    [t |-> "none", seq |-> 0, op |-> "none", err |-> "nil", msg |-> ZeroMessage,
     content |-> NilContent, n |-> 0, checked |-> CONNECTED]

\* c.streamConns[id], nil (0) when the map has no such key
Lookup(map, id) == IF id \in DOMAIN map THEN map[id] ELSE 0

\* c.streamConns[id] = h
Store(map, id, h) == [i \in DOMAIN map \cup {id} |-> IF i = id THEN h ELSE map[i]]

\* delete(c.streamConns, id)
Delete(map, id) == [i \in DOMAIN map \ {id} |-> map[i]]

\* atomic.NewError(ConnectionClosed) in New
NewError_nil == "nil"
NewError == "ConnectionClosed"

\* NewClient and Connect: the Client is not closed, its heartbeat channel is
\* empty, the reactor is at the top of its loop and the heartbeat worker waits
\* for its first tick; action is the Action (NONE, CLOSE, SHUTDOWN) the reactor
\* has still to apply
NewClient ==
    [closed |-> FALSE, heartbeatChannel |-> 0, reactor |-> "top", heartbeat |-> "tick",
     action |-> "NONE", seen |-> 0]

\* New: the Conn after construction, both workers started
New(rcv) ==
    /\ state = CONNECTED
    /\ error = NewError
    /\ writer = [buf |-> <<>>, err |-> "nil"]
    /\ flusher = [n |-> 0, closes |-> 0]
    /\ incomingMessages = [q |-> <<>>, closes |-> 0]
    /\ mu = "none"
    /\ wg = 2
    /\ conn = [closes |-> 0, deadline |-> "none", rcv |-> rcv, eof |-> FALSE,
               rfault |-> "nil", wfault |-> "nil", sent |-> <<>>, out |-> 0]
    /\ streamConns = <<>>
    /\ streams = <<>>
    /\ StreamConnCh = <<>>
    /\ pc = [p \in Procs |->
                IF p = "reader" THEN "rd_hdr" ELSE IF p = "flusher" THEN "fl_recv" ELSE "idle"]
    /\ call = [p \in Procs |->
                IF p = "reader" THEN [NoCall EXCEPT !.op = "readLoop"]
                ELSE IF p = "flusher" THEN [NoCall EXCEPT !.op = "flushLoop"] ELSE NoCall]
    /\ rd = [buf |-> [i \in 1..BufSize |-> 0], n |-> 0, index |-> 0, msg |-> ZeroMessage,
             content |-> <<>>, cp |-> 0, min |-> 0, h |-> 0]
    /\ ret = <<>>
    /\ nops = 0
    /\ panic = "none"
    /\ client = NewClient

\* the process p is at the label l of its code, and the program has not panicked
At(p, l) == panic = "none" /\ pc[p] = l

\* ------------------------------------------------ returning from a call
\* an application call returns r; a worker returns through its deferred wg.Done
Return(p, r) ==
    IF p \in Workers
    THEN /\ pc' = [pc EXCEPT ![p] = "done"]
         /\ wg' = wg - 1
         /\ UNCHANGED <<ret, call>>
    ELSE /\ pc' = [pc EXCEPT ![p] = "idle"]
         /\ ret' = Append(ret, [r EXCEPT !.t = p])
         /\ call' = [call EXCEPT ![p] = NoCall]
         /\ wg' = wg

\* the result of the call c, with the error e
RetOf(c, e) ==
    [NoRet EXCEPT !.op = c.op, !.err = e, !.n = c.total, !.seq = c.seq, !.checked = c.checked]

RetErr(p, e) == RetOf(call[p], e)

\* ------------------------------------- pause, close, closeWithError, kill
\* closeWithError has returned r to the call c of p: the workers return,
\* ReadMessage and the write calls return r, Flush returns the error of the flush
AfterCwe(p, c, r) == Return(p, RetOf(c, IF c.op = "Flush" THEN c.err ELSE r))

\* the caller p, in the call c, calls closeWithError(err): a timeout is returned
\* as it is, EOF and ErrClosedPipe go to pause, every other error to close
CweFrom(p, err, c) ==
    IF IsTimeout(err)
    THEN AfterCwe(p, c, err)
    ELSE /\ pc' = [pc EXCEPT ![p] = IF IsEOF(err) THEN "pause_cas" ELSE "close_cas"]
         /\ call' = [call EXCEPT ![p] = [c EXCEPT !.err = err, !.via = "cwe",
                                 !.path = IF IsEOF(err) THEN "pause" ELSE "close"]]
         /\ UNCHANGED <<ret, wg>>

CweStart(p, err) == CweFrom(p, err, call[p])

\* a Close that goes on to c.conn.Close() whatever close returned
AfterClose_always(p, r) ==
    IF call[p].via = "Close"
    THEN /\ pc' = [pc EXCEPT ![p] = "Close_conn"]
         /\ UNCHANGED <<call, ret, wg>>
    ELSE IF call[p].via = "Raw"
    THEN Return(p, RetErr(p, "nil"))
    ELSE IF r = "ConnectionClosed"
         THEN AfterCwe(p, call[p], "ConnectionClosed")
         ELSE /\ pc' = [pc EXCEPT ![p] = "cwe_store"]
              /\ UNCHANGED <<call, ret, wg>>

\* a closeWithError that stores the error and closes the stream whatever close
\* returned
AfterClose_store(p, r) ==
    IF call[p].via = "Close"
    THEN IF r = "ConnectionClosed"
         THEN Return(p, RetErr(p, "nil"))
         ELSE /\ pc' = [pc EXCEPT ![p] = "Close_conn"]
              /\ UNCHANGED <<call, ret, wg>>
    ELSE IF call[p].via = "Raw"
    THEN Return(p, RetErr(p, "nil"))
    ELSE /\ pc' = [pc EXCEPT ![p] = "cwe_store"]
         /\ UNCHANGED <<call, ret, wg>>

\* close has returned r to Close, Raw or closeWithError
AfterClose(p, r) ==
    IF call[p].via = "Close"
    THEN IF r = "ConnectionClosed"
         THEN Return(p, RetErr(p, "nil"))
         ELSE /\ pc' = [pc EXCEPT ![p] = "Close_conn"]
              /\ UNCHANGED <<call, ret, wg>>
    ELSE IF call[p].via = "Raw"
    THEN Return(p, RetErr(p, "nil"))
    ELSE IF r = "ConnectionClosed"
         THEN AfterCwe(p, call[p], "ConnectionClosed")
         ELSE /\ pc' = [pc EXCEPT ![p] = "cwe_store"]
              /\ UNCHANGED <<call, ret, wg>>

\* pause: c.state.CAS(CONNECTED, PAUSED)
PauseCAS(p) ==
    /\ At(p, "pause_cas")
    /\ IF state = CONNECTED
       THEN /\ state' = PAUSED
            /\ pc' = [pc EXCEPT ![p] = "pause_store"]
       ELSE /\ state' = state
            /\ pc' = [pc EXCEPT ![p] = "pause_load"]
    /\ UNCHANGED <<client, error, writer, flusher, incomingMessages, mu, wg, conn, streamConns,
                   streams, StreamConnCh, call, rd, ret, nops, panic, hist>>

\* pause: the CAS lost; c.state.Load() == PAUSED decides what closeWithError returns
PauseLoad(p) ==
    /\ At(p, "pause_load")
    /\ AfterCwe(p, call[p],
                IF state = PAUSED THEN "ConnectionPaused" ELSE "ConnectionNotInitialized")
    /\ UNCHANGED <<client, state, error, writer, flusher, incomingMessages, mu, conn,
                   streamConns, streams, StreamConnCh, rd, nops, panic, hist>>

\* pause: c.error.Store(ConnectionPaused)
PauseStore(p) ==
    /\ At(p, "pause_store")
    /\ error' = "ConnectionPaused"
    /\ pc' = [pc EXCEPT ![p] = "kill"]
    /\ UNCHANGED <<client, state, writer, flusher, incomingMessages, mu, wg, conn, streamConns,
                   streams, StreamConnCh, call, rd, ret, nops, panic, hist>>

\* close: c.state.CAS(CONNECTED, CLOSED); who wins it, and from which entry
\* point, is remembered
CloseCAS(p) ==
    /\ At(p, "close_cas")
    /\ IF state = CONNECTED
       THEN /\ state' = CLOSED
            /\ pc' = [pc EXCEPT ![p] = "close_store"]
            /\ hist' = [hist EXCEPT !.closer = <<p, call[p].via>>]
       ELSE /\ state' = state
            /\ pc' = [pc EXCEPT ![p] = "close_cas2"]
            /\ hist' = hist
    /\ UNCHANGED <<client, error, writer, flusher, incomingMessages, mu, wg, conn, streamConns,
                   streams, StreamConnCh, call, rd, ret, nops, panic>>

\* close: c.error.Store(ConnectionClosed) of the CONNECTED branch
CloseStore(p) ==
    /\ At(p, "close_store")
    /\ error' = "ConnectionClosed"
    /\ pc' = [pc EXCEPT ![p] = "kill"]
    /\ UNCHANGED <<client, state, writer, flusher, incomingMessages, mu, wg, conn, streamConns,
                   streams, StreamConnCh, call, rd, ret, nops, panic, hist>>

\* close: c.state.CAS(PAUSED, CLOSED); when it fails close returns ConnectionClosed
CloseCAS2(p) ==
    /\ At(p, "close_cas2")
    /\ IF state = PAUSED
       THEN /\ state' = CLOSED
            /\ pc' = [pc EXCEPT ![p] = "close_store2"]
            /\ UNCHANGED <<call, ret, wg>>
       ELSE /\ state' = state
            /\ AfterClose(p, "ConnectionClosed")
    /\ UNCHANGED <<client, error, writer, flusher, incomingMessages, mu, conn, streamConns,
                   streams, StreamConnCh, rd, nops, panic, hist>>

\* a PAUSED branch of close that runs killGoroutines as the CONNECTED branch does
CloseStore2_kill(p) ==
    /\ At(p, "close_store2")
    /\ error' = "ConnectionClosed"
    /\ pc' = [pc EXCEPT ![p] = "kill"]
    /\ UNCHANGED <<client, state, writer, flusher, incomingMessages, mu, wg, conn, streamConns,
                   streams, StreamConnCh, call, rd, ret, nops, panic, hist>>

\* close: c.error.Store(ConnectionClosed) of the PAUSED branch, close returns nil
CloseStore2(p) ==
    /\ At(p, "close_store2")
    /\ error' = "ConnectionClosed"
    /\ AfterClose(p, "nil")
    /\ UNCHANGED <<client, state, writer, flusher, incomingMessages, mu, conn, streamConns,
                   streams, StreamConnCh, rd, nops, panic, hist>>

\* killGoroutines: under the mutex, close the incoming queue and the flusher
\* channel; then set the read deadline of the stream to now
Kill(p) ==
    /\ At(p, "kill")
    /\ mu = "none"
    /\ incomingMessages' = [incomingMessages EXCEPT !.closes = @ + 1]
    /\ flusher' = [flusher EXCEPT !.closes = @ + 1]
    /\ panic' = IF flusher.closes > 0 THEN "close of closed channel" ELSE panic
    /\ conn' = [conn EXCEPT !.deadline = "past"]
    /\ pc' = [pc EXCEPT ![p] = "kill_wait"]
    /\ UNCHANGED <<client, state, error, writer, mu, wg, streamConns, streams, StreamConnCh,
                   call, rd, ret, nops, hist>>

\* killGoroutines: c.wg.Wait(), then the read deadline is cleared; pause returns
\* nil and closeWithError returns ConnectionPaused, close goes on to its flush
KillWait(p) ==
    /\ At(p, "kill_wait")
    /\ wg = 0
    /\ conn' = [conn EXCEPT !.deadline = "none"]
    /\ IF call[p].path = "pause"
       THEN AfterCwe(p, call[p], "ConnectionPaused")
       ELSE /\ pc' = [pc EXCEPT ![p] = "close_flush"]
            /\ UNCHANGED <<call, ret, wg>>
    /\ UNCHANGED <<client, state, error, writer, flusher, incomingMessages, mu, streamConns,
                   streams, StreamConnCh, rd, nops, panic, hist>>

\* close: flush what is still buffered, best effort, under the mutex; close returns nil
CloseFlush(p) ==
    /\ At(p, "close_flush")
    /\ mu = "none"
    /\ LET fl == FlushBuffered(writer, conn) IN
       /\ writer' = fl.w
       /\ conn' = [conn EXCEPT !.sent = fl.sent]
    /\ AfterClose(p, "nil")
    /\ UNCHANGED <<client, state, error, flusher, incomingMessages, mu, streamConns, streams,
                   StreamConnCh, rd, nops, panic, hist>>

\* Close: c.conn.Close() after close won a transition; Close returns nil
CloseConn(p) ==
    /\ At(p, "Close_conn")
    /\ conn' = [conn EXCEPT !.closes = @ + 1]
    /\ Return(p, RetErr(p, "nil"))
    /\ UNCHANGED <<client, state, error, writer, flusher, incomingMessages, mu, streamConns,
                   streams, StreamConnCh, rd, nops, panic, hist>>

\* closeWithError: c.error.Store(err)
CweStore(p) ==
    /\ At(p, "cwe_store")
    /\ error' = call[p].err
    /\ pc' = [pc EXCEPT ![p] = "cwe_connclose"]
    /\ UNCHANGED <<client, state, writer, flusher, incomingMessages, mu, wg, conn, streamConns,
                   streams, StreamConnCh, call, rd, ret, nops, panic, hist>>

\* closeWithError: c.conn.Close(), and err is returned
CweConnClose(p) ==
    /\ At(p, "cwe_connclose")
    /\ conn' = [conn EXCEPT !.closes = @ + 1]
    /\ AfterCwe(p, call[p], call[p].err)
    /\ UNCHANGED <<client, state, error, writer, flusher, incomingMessages, mu, streamConns,
                   streams, StreamConnCh, rd, nops, panic, hist>>

\* a non-timeout, non-EOF I/O error met by p while CONNECTED is remembered
NoteError(p, err) ==
    IF state = CONNECTED /\ err = "EIO" /\ hist.ioerr = <<>>
    THEN [hist EXCEPT !.ioerr = <<p, err>>]
    ELSE hist

\* ----------------------------------------------------------------- flushLoop
\* flushLoop: <-c.flusher; the loop ends when the channel is closed and empty
FlushRecv ==
    /\ At("flusher", "fl_recv")
    /\ IF flusher.n > 0
       THEN /\ flusher' = [flusher EXCEPT !.n = @ - 1]
            /\ pc' = [pc EXCEPT !["flusher"] = "fl_flush"]
            /\ UNCHANGED <<wg, ret, call>>
       ELSE /\ flusher.closes > 0
            /\ flusher' = flusher
            /\ Return("flusher", NoRet)
    /\ UNCHANGED <<client, state, error, writer, incomingMessages, mu, conn, streamConns, streams,
                   StreamConnCh, rd, nops, panic, hist>>

\* flushLoop: under the mutex, flush what is buffered; an error goes to closeWithError
FlushFlush ==
    /\ At("flusher", "fl_flush")
    /\ mu = "none"
    /\ LET fl == FlushBuffered(writer, conn) IN
       /\ writer' = fl.w
       /\ conn' = [conn EXCEPT !.sent = fl.sent]
       /\ IF fl.err # "nil"
          THEN /\ CweStart("flusher", fl.err)
               /\ hist' = NoteError("flusher", fl.err)
          ELSE /\ pc' = [pc EXCEPT !["flusher"] = "fl_recv"]
               /\ UNCHANGED <<call, hist, ret, wg>>
    /\ UNCHANGED <<client, state, error, flusher, incomingMessages, mu, streamConns, streams,
                   StreamConnCh, rd, nops, panic>>

\* ------------------------------------------------------------------ readLoop
\* the outcomes of one c.conn.Read into a slice with room cells: an error, or
\* the bytes that have arrived, as far as there is room; none when it blocks
ReadOutcomes(cn, room) ==
    IF cn.closes > 0 THEN {[nn |-> 0, err |-> "NetClosed"]}
    ELSE IF cn.deadline = "past" THEN {[nn |-> 0, err |-> "Timeout"]}
    ELSE IF cn.rfault # "nil" THEN {[nn |-> 0, err |-> cn.rfault]}
    ELSE IF cn.rcv # <<>> THEN {[nn |-> Min(room, Len(cn.rcv)), err |-> "nil"]}
    ELSE IF cn.eof THEN {[nn |-> 0, err |-> "EOF"]}
    ELSE {}

\* append(buf[:cap(buf)], 0) until the capacity reaches need
RECURSIVE GrowTo(_, _)
GrowTo(size, need) == IF size >= need THEN size ELSE GrowTo(2 * size, need)

\* the READ label: what readLoop does once a frame is dispatched
ReadLabel(r) ==
    IF r.n = r.index
    THEN [pc |-> "rd_fresh", rd |-> [r EXCEPT !.index = 0, !.n = 0]]
    ELSE IF r.n - r.index < MessageSize
    THEN [pc |-> "rd_topup",
          rd |-> [r EXCEPT !.buf = CopyInto(r.buf, 0, SubSeq(r.buf, r.index + 1, r.n)),
                           !.index = r.n - r.index, !.n = 0,
                           !.min = MessageSize - (r.n - r.index)]]
    ELSE [pc |-> "rd_parse", rd |-> r]

\* the application threads that wait in ReadMessage on the empty, open queue
Blocked == {t \in Threads : pc[t] = "rm_pop" /\ incomingMessages.q = <<>>}

\* a timeout met by the reader while no shutdown has begun is remembered, and
\* so is the ReadMessage call that waits when the reader meets EOF while CONNECTED
NoteRead(err) ==
    IF err = "Timeout" /\ state = CONNECTED
    THEN [NoteError("reader", err) EXCEPT !.timedOut = TRUE]
    ELSE IF IsEOF(err) /\ state = CONNECTED /\ Blocked # {}
    THEN [hist EXCEPT !.blocked = call[CHOOSE t \in Blocked : TRUE].seq]
    ELSE NoteError("reader", err)

\* after the read of a whole header: index = 0, and the inner loop starts
ToParse(r) == [pc |-> "rd_parse", rd |-> [r EXCEPT !.index = 0]]

\* after the top-up of a partial header: n += index, index = 0
AfterTopup(r) == [pc |-> "rd_parse", rd |-> [r EXCEPT !.n = r.n + r.index, !.index = 0]]

\* after the read of the rest of a payload: copy(readContent[cp:], buf[:min])
AfterContent(r) ==
    [pc |-> "rd_push",
     rd |-> [r EXCEPT !.content = CopyInto(r.content, r.cp, SubSeq(r.buf, 1, r.min)),
                      !.index = r.min]]

\* where a read loop of the given kind leaves the reader once its bytes are there
AfterRead(kind, r) ==
    IF kind = "topup" THEN AfterTopup(r)
    ELSE IF kind = "content" THEN AfterContent(r)
    ELSE ToParse(r)

\* one c.conn.Read of a loop that reads until need cells are there, at offset off
\* of buf
ReadStep(label, off, need, kind) ==
    /\ At("reader", label)
    /\ \E oc \in ReadOutcomes(conn, Len(rd.buf) - off - rd.n) :
         LET r2 == [rd EXCEPT !.buf = CopyInto(rd.buf, off + rd.n, Take(conn.rcv, oc.nn)),
                              !.n = rd.n + oc.nn]
         IN  /\ conn' = [conn EXCEPT !.rcv = Drop(@, oc.nn)]
             /\ IF oc.err # "nil" /\ r2.n < need
                THEN /\ rd' = r2
                     /\ CweStart("reader", oc.err)
                     /\ hist' = NoteRead(oc.err)
                ELSE /\ IF r2.n >= need
                        THEN /\ rd' = AfterRead(kind, r2).rd
                             /\ pc' = [pc EXCEPT !["reader"] = AfterRead(kind, r2).pc]
                        ELSE /\ rd' = r2
                             /\ pc' = pc
                     /\ UNCHANGED <<call, hist, ret, wg>>
    /\ UNCHANGED <<client, state, error, writer, flusher, incomingMessages, mu, streamConns,
                   streams, StreamConnCh, nops, panic>>

\* readLoop, top of the outer loop: read until one header is in buf
ReadHeader == ReadStep("rd_hdr", 0, MessageSize, "header")

\* readLoop, READ label with n == index: read a fresh buffer
ReadFresh == ReadStep("rd_fresh", 0, MessageSize, "header")

\* readLoop, READ label with a partial header left: top it up to a full header
ReadTopup == ReadStep("rd_topup", rd.index, rd.min, "topup")

\* readLoop, payload of a message that buf did not hold in full: read the rest
ReadContent == ReadStep("rd_content", 0, rd.min, "content")

\* c.NewStreamConn(id): a new StreamConn with an empty incomingBuffer of capacity
\* DefaultBufferSize; buffer holds the unread bytes, off is the read offset of
\* the bytes.Buffer, cap its capacity, lock the holder of the incomingBuffer mutex
NewStream(id) ==
    [id |-> id, closed |-> FALSE, buffer |-> <<>>, lock |-> "none", off |-> 0,
     cap |-> BufSize]

\* bytes.Buffer.Grow(n): an empty buffer is reset; if n more bytes do not fit
\* behind the unread ones they are moved to the front, or the capacity becomes
\* 2 * cap + n
BytesGrow(b, n) ==
    LET m == Len(b.buffer)
        o == IF m = 0 THEN 0 ELSE b.off
    IN  IF n <= b.cap - (o + m) THEN [b EXCEPT !.off = o]
        ELSE IF n <= (b.cap \div 2) - m THEN [b EXCEPT !.off = 0]
        ELSE [b EXCEPT !.off = 0, !.cap = 2 * b.cap + n]

\* bytes.Buffer.Write(p): grows as far as needed, then appends
BytesWrite(b, p) ==
    IF Len(p) <= b.cap - (b.off + Len(b.buffer))
    THEN [b EXCEPT !.buffer = @ \o p]
    ELSE [BytesGrow(b, Len(p)) EXCEPT !.buffer = @ \o p]

\* bytes.Buffer.ReadFrom, as io.CopyN uses it: before every read the buffer is
\* grown by MinRead (one cell here), and the read fills the room there is
RECURSIVE BytesReadFrom(_, _)
BytesReadFrom(b, p) ==
    IF p = <<>> THEN b
    ELSE LET g == BytesGrow(b, 1)
             room == g.cap - (g.off + Len(g.buffer))
         IN  BytesReadFrom([g EXCEPT !.buffer = @ \o Take(p, room)], Drop(p, room))

\* bytes.Buffer.Read(p) with len(p) = k on a buffer that is not empty
BytesRead(b, k) == [b EXCEPT !.buffer = Drop(@, k), !.off = @ + Min(k, Len(b.buffer))]

\* buffer.Cap() - buffer.Len() < int(decodedMessage.ContentLength)
NeedsGrow(b, len) == b.cap - Len(b.buffer) < len

\* the buffer after the loop that calls buffer.Grow(1 << 19) while NeedsGrow: a
\* second Grow by the same amount changes nothing
AfterGrowLoop(b, len) == IF NeedsGrow(b, len) THEN BytesGrow(b, BufSize) ELSE b

\* the loop never ends: the room Grow guarantees is still less than len
GrowSpins(b, len) == NeedsGrow(AfterGrowLoop(b, len), len)

\* readLoop, one frame: check the reserved bytes, decode the header at index and
\* dispatch on the operation, up to the next read from the stream or push
ReadParse ==
    /\ At("reader", "rd_parse")
    /\ LET hdr == SubSeq(rd.buf, rd.index + 1, rd.index + MessageSize)
           m == Decode(hdr)
           ix == rd.index + MessageSize
           len == m.ContentLength
           h0 == Lookup(streamConns, m.Id)
       IN
       IF rd.index >= rd.n \/ ~ValidReserved(hdr)
       THEN \* the inner loop ends, or breaks on InvalidBufferContents
            /\ pc' = [pc EXCEPT !["reader"] = "rd_hdr"]
            /\ rd' = [rd EXCEPT !.n = 0]
            /\ UNCHANGED <<streamConns, streams, StreamConnCh, hist>>
       ELSE IF m.Operation = STREAMCLOSE
       THEN /\ IF h0 # 0
               THEN /\ streams' = [streams EXCEPT ![h0].closed = TRUE]
                    /\ streamConns' = Delete(streamConns, m.Id)
               ELSE UNCHANGED <<streams, streamConns>>
            /\ LET nx == ReadLabel([rd EXCEPT !.index = ix, !.msg = m]) IN
               /\ rd' = nx.rd
               /\ pc' = [pc EXCEPT !["reader"] = nx.pc]
            /\ hist' = [hist EXCEPT !.closedIds = @ \cup {m.Id}]
            /\ UNCHANGED StreamConnCh
       ELSE IF len > 0 /\ m.Operation = STREAM
       THEN /\ LET h == IF h0 # 0 THEN h0 ELSE Len(streams) + 1
                   ss == IF h0 # 0 THEN streams ELSE Append(streams, NewStream(m.Id))
               IN
               /\ ss[h].lock = "none"
               /\ streamConns' = Store(streamConns, m.Id, h)
               /\ StreamConnCh' = IF h0 # 0 THEN StreamConnCh ELSE Append(StreamConnCh, h)
               /\ IF GrowSpins(ss[h], len)
                  THEN \* the Grow loop never ends, with the incomingBuffer mutex held
                       /\ streams' = [ss EXCEPT ![h] = [AfterGrowLoop(ss[h], len) EXCEPT !.lock = "reader"]]
                       /\ rd' = [rd EXCEPT !.msg = m, !.h = h, !.index = ix]
                       /\ pc' = [pc EXCEPT !["reader"] = "rd_grow"]
                  ELSE IF rd.n - ix < len
                  THEN /\ streams' = [ss EXCEPT ![h] =
                                        [BytesWrite(AfterGrowLoop(ss[h], len), SubSeq(rd.buf, ix + 1, rd.n))
                                            EXCEPT !.lock = "reader"]]
                       /\ rd' = [rd EXCEPT !.msg = m, !.h = h, !.index = rd.n,
                                           !.min = len - (rd.n - ix)]
                       /\ pc' = [pc EXCEPT !["reader"] = "rd_copyn"]
                  ELSE /\ streams' = [ss EXCEPT ![h] =
                                        BytesWrite(AfterGrowLoop(ss[h], len), SubSeq(rd.buf, ix + 1, ix + len))]
                       /\ LET nx == ReadLabel([rd EXCEPT !.index = ix + len, !.msg = m, !.h = h]) IN
                          /\ rd' = nx.rd
                          /\ pc' = [pc EXCEPT !["reader"] = nx.pc]
            /\ hist' = hist
       ELSE IF len > 0
       THEN /\ IF rd.n - ix < len
               THEN LET size == GrowTo(Len(rd.buf), len)
                        cp == rd.n - ix
                    IN  /\ rd' = [rd EXCEPT
                                    !.buf = [i \in 1..size |-> IF i <= Len(rd.buf) THEN rd.buf[i] ELSE 0],
                                    !.msg = m,
                                    !.content = CopyInto([i \in 1..len |-> 0], 0, SubSeq(rd.buf, ix + 1, rd.n)),
                                    !.cp = cp, !.min = len - cp, !.n = 0, !.index = ix]
                        /\ pc' = [pc EXCEPT !["reader"] = "rd_content"]
               ELSE /\ rd' = [rd EXCEPT !.msg = m, !.index = ix + len,
                                        !.content = SubSeq(rd.buf, ix + 1, ix + len)]
                    /\ pc' = [pc EXCEPT !["reader"] = "rd_push"]
            /\ UNCHANGED <<streamConns, streams, StreamConnCh, hist>>
       ELSE /\ rd' = [rd EXCEPT !.msg = m, !.index = ix, !.content = <<>>]
            /\ pc' = [pc EXCEPT !["reader"] = "rd_push"]
            /\ UNCHANGED <<streamConns, streams, StreamConnCh, hist>>
    /\ UNCHANGED <<client, state, error, writer, flusher, incomingMessages, mu, wg, conn, call,
                   ret, nops, panic>>

\* readLoop, STREAM payload that buf did not hold in full: io.CopyN of the rest
\* from the stream into the sub-stream buffer, whose mutex the reader holds
ReadCopyN ==
    /\ At("reader", "rd_copyn")
    /\ \E oc \in ReadOutcomes(conn, rd.min) :
         /\ conn' = [conn EXCEPT !.rcv = Drop(@, oc.nn)]
         /\ IF oc.err # "nil"
            THEN /\ CweStart("reader", oc.err)
                 /\ hist' = NoteRead(oc.err)
                 /\ UNCHANGED <<rd, streams>>
            ELSE /\ IF oc.nn = rd.min
                    THEN LET nx == ReadLabel([rd EXCEPT !.min = 0]) IN
                         /\ streams' = [streams EXCEPT ![rd.h] =
                                          [BytesReadFrom(@, Take(conn.rcv, oc.nn)) EXCEPT !.lock = "none"]]
                         /\ rd' = nx.rd
                         /\ pc' = [pc EXCEPT !["reader"] = nx.pc]
                    ELSE /\ streams' = [streams EXCEPT ![rd.h] = BytesReadFrom(@, Take(conn.rcv, oc.nn))]
                         /\ rd' = [rd EXCEPT !.min = @ - oc.nn]
                         /\ pc' = pc
                 /\ UNCHANGED <<call, hist, ret, wg>>
    /\ UNCHANGED <<client, state, error, writer, flusher, incomingMessages, mu, streamConns,
                   StreamConnCh, nops, panic>>

\* RingBuffer.Push / Pop / Close (package ringbuffer)
QueueClosed(q) == q.closes > 0
QueueFull(q) == Len(q.q) >= QueueSize

\* the packet readLoop pushes: Content is nil when ContentLength is 0
Packet(r) ==
    [Message |-> r.msg,
     Content |-> IF r.msg.ContentLength > 0 THEN Content(r.content) ELSE NilContent]

\* readLoop: c.incomingMessages.Push of the decoded packet, then the READ label
ReadPush ==
    /\ At("reader", "rd_push")
    /\ IF QueueClosed(incomingMessages)
       THEN /\ CweStart("reader", "QueueClosed")
            /\ hist' = NoteError("reader", "QueueClosed")
            /\ UNCHANGED <<incomingMessages, rd>>
       ELSE /\ ~QueueFull(incomingMessages)
            /\ incomingMessages' = [incomingMessages EXCEPT !.q = Append(@, Packet(rd))]
            /\ LET nx == ReadLabel(rd) IN
               /\ rd' = nx.rd
               /\ pc' = [pc EXCEPT !["reader"] = nx.pc]
            /\ UNCHANGED <<call, hist, ret, wg>>
    /\ UNCHANGED <<client, state, error, writer, flusher, mu, conn, streamConns, streams,
                   StreamConnCh, nops, panic>>


\* ------------------------------------------------------------- WriteMessage
\* a writer that lets go of the mutex between the header and the payload
LockedBy_none(t) == "none"

\* c.Lock(): the mutex stays with the caller t until its Unlock
LockedBy(t) == t

\* a writer that posts no wake signal
Wake_never(f) == f

\* the non-blocking wake of the flusher: if len(c.flusher) == 0, send
Wake(f) == IF f.n = 0 THEN [f EXCEPT !.n = 1] ELSE f

\* the send hits a closed channel
WakePanics(f) == f.n = 0 /\ f.closes > 0

WakePanic(f) == IF WakePanics(f) THEN "send on closed channel" ELSE panic

Frame(p, header, payload) == [by |-> p, header |-> header, payload |-> payload]

\* the call has taken the mutex while CONNECTED: its frame joins the history
NoteFrame(h, p, header, payload) ==
    [h EXCEPT !.frames = Append(@, Frame(p, header, payload))]

\* a state check that takes every state for CONNECTED
StateLoad_connected == CONNECTED

\* c.state.Load() of the state check a write call makes under the mutex
StateLoad == state

\* the body of WriteMessage(message, content) for the call cl that is at label:
\* the length check, then under the mutex the state check and the write of the
\* header; with nil content also the wake
WMCall(t, label, cl) ==
    /\ At(t, label)
    /\ LET m == cl.msg
           c == cl.content
       IN
       IF ~c.nil /\ m.ContentLength # Len(c.bytes)
       THEN /\ Return(t, RetOf(cl, "InvalidContentLength"))
            /\ UNCHANGED <<mu, writer, conn, flusher, panic, hist>>
       ELSE /\ mu = "none"
            /\ IF StateLoad # CONNECTED
               THEN /\ pc' = [pc EXCEPT ![t] = "wm_error"]
                    /\ call' = [call EXCEPT ![t] = [cl EXCEPT !.checked = state]]
                    /\ UNCHANGED <<mu, writer, conn, flusher, panic, hist, ret, wg>>
               ELSE LET w == BufWrite(writer, Encode(m), conn)
                        hs == NoteFrame(hist, t, Encode(m), c.bytes)
                    IN
                    /\ writer' = w.w
                    /\ conn' = [conn EXCEPT !.sent = w.sent]
                    /\ IF w.err # "nil"
                       THEN /\ pc' = [pc EXCEPT ![t] = "wm_failed"]
                            /\ call' = [call EXCEPT ![t] = [cl EXCEPT !.err = w.err]]
                            /\ hist' = [NoteError(t, w.err) EXCEPT !.frames = hs.frames]
                            /\ UNCHANGED <<mu, flusher, panic, ret, wg>>
                       ELSE IF c.nil
                       THEN /\ flusher' = Wake(flusher)
                            /\ panic' = WakePanic(flusher)
                            /\ Return(t, RetOf(cl, "nil"))
                            /\ hist' = [hs EXCEPT !.wrote = Append(@, [Message |-> m, Content |-> c])]
                            /\ mu' = mu
                       ELSE /\ pc' = [pc EXCEPT ![t] = "wm_content"]
                            /\ call' = [call EXCEPT ![t] = cl]
                            /\ mu' = LockedBy(t)
                            /\ hist' = hs
                            /\ UNCHANGED <<flusher, panic, ret, wg>>
    /\ UNCHANGED <<state, error, incomingMessages, streamConns, streams, StreamConnCh, rd>>

\* one WriteMessage call of the application
WriteMessage(t, m, c) ==
    /\ nops < MaxOps
    /\ nops' = nops + 1
    /\ WMCall(t, "idle", [NoCall EXCEPT !.seq = nops + 1, !.op = "WriteMessage", !.msg = m,
                                        !.content = c])
    /\ client' = client

\* the second write of a call that holds the mutex: the payload, then the wake,
\* the unlock and the return of r; a write error leaves through failed
WritePayload(t, label, bytes, failed, r, h2) ==
    /\ At(t, label)
    /\ LET w == BufWrite(writer, bytes, conn) IN
       /\ writer' = w.w
       /\ conn' = [conn EXCEPT !.sent = w.sent]
       /\ mu' = "none"
       /\ IF w.err # "nil"
          THEN /\ pc' = [pc EXCEPT ![t] = failed]
               /\ call' = [call EXCEPT ![t].err = w.err]
               /\ hist' = NoteError(t, w.err)
               /\ UNCHANGED <<flusher, panic, ret, wg>>
          ELSE /\ flusher' = Wake(flusher)
               /\ panic' = WakePanic(flusher)
               /\ Return(t, r)
               /\ hist' = h2
    /\ UNCHANGED <<client, state, error, incomingMessages, streamConns, streams, StreamConnCh, rd, nops>>

\* WriteMessage: under the mutex, the write of the content, the wake, the return
WMContent(t) ==
    WritePayload(t, "wm_content", call[t].content.bytes, "wm_failed",
                 RetOf(call[t], "nil"),
                 [hist EXCEPT !.wrote = Append(@, [Message |-> call[t].msg,
                                                   Content |-> call[t].content])])

\* after a failed write: if the state is no longer CONNECTED the stored error is
\* returned, else the error goes to closeWithError
WriteFailed(t, label, errlabel) ==
    /\ At(t, label)
    /\ IF state # CONNECTED
       THEN /\ pc' = [pc EXCEPT ![t] = errlabel]
            /\ UNCHANGED <<call, ret, wg>>
       ELSE CweStart(t, call[t].err)
    /\ UNCHANGED <<client, state, error, writer, flusher, incomingMessages, mu, conn, streamConns,
                   streams, StreamConnCh, rd, nops, panic, hist>>

\* return c.Error()
ReturnError(t, label) ==
    /\ At(t, label)
    /\ Return(t, RetErr(t, error))
    /\ UNCHANGED <<client, state, error, writer, flusher, incomingMessages, mu, conn, streamConns,
                   streams, StreamConnCh, rd, nops, panic, hist>>

\* WriteMessage: the error branch of a write
WMFailed(t) == WriteFailed(t, "wm_failed", "wm_error")

\* WriteMessage: return c.Error()
WMError(t) == ReturnError(t, "wm_error")

\* -------------------------------------------------------------- ReadMessage
\* ReadMessage: the state check
RMCheck(t) ==
    /\ At(t, "idle")
    /\ pc' = [pc EXCEPT ![t] = IF state # CONNECTED THEN "rm_error" ELSE "rm_pop"]
    /\ call' = [call EXCEPT ![t] = [NoCall EXCEPT !.seq = nops + 1, !.op = "ReadMessage", !.checked = state]]
    /\ UNCHANGED <<state, error, writer, flusher, incomingMessages, mu, wg, conn, streamConns,
                   streams, StreamConnCh, rd, ret, panic, hist>>

\* one ReadMessage call of the application
ReadMessage(t) ==
    /\ nops < MaxOps
    /\ nops' = nops + 1
    /\ RMCheck(t)
    /\ client' = client

\* ReadMessage: c.incomingMessages.Pop(), which waits while the queue is empty
\* and open, and fails once it is closed and drained
RMPop(t) ==
    /\ At(t, "rm_pop")
    /\ IF incomingMessages.q # <<>>
       THEN LET pk == Head(incomingMessages.q) IN
            /\ incomingMessages' = [incomingMessages EXCEPT !.q = Tail(@)]
            /\ Return(t, [RetOf(call[t], "nil") EXCEPT !.msg = pk.Message,
                                                       !.content = pk.Content])
            /\ hist' = [hist EXCEPT !.got = Append(@, pk)]
       ELSE /\ QueueClosed(incomingMessages)
            /\ pc' = [pc EXCEPT ![t] = "rm_failed"]
            /\ UNCHANGED <<incomingMessages, call, ret, wg, hist>>
    /\ UNCHANGED <<client, state, error, writer, flusher, mu, conn, streamConns, streams,
                   StreamConnCh, rd, nops, panic>>

\* ReadMessage: the error branch of Pop
RMFailed(t) ==
    /\ At(t, "rm_failed")
    /\ IF state # CONNECTED
       THEN /\ pc' = [pc EXCEPT ![t] = "rm_error"]
            /\ UNCHANGED <<call, ret, wg>>
       ELSE CweStart(t, "QueueClosed")
    /\ UNCHANGED <<client, state, error, writer, flusher, incomingMessages, mu, conn, streamConns,
                   streams, StreamConnCh, rd, nops, panic, hist>>

\* ReadMessage: return c.Error()
RMError(t) == ReturnError(t, "rm_error")

\* ------------------------------------------------- Flush, Close, Raw, deadline
\* Flush: under the mutex, flush what is buffered; an error goes to closeWithError
Flush(t) ==
    /\ At(t, "idle")
    /\ nops < MaxOps
    /\ nops' = nops + 1
    /\ mu = "none"
    /\ LET fl == FlushBuffered(writer, conn) IN
       /\ writer' = fl.w
       /\ conn' = [conn EXCEPT !.sent = fl.sent]
       /\ IF fl.err # "nil"
          THEN /\ CweFrom(t, fl.err, [NoCall EXCEPT !.seq = nops + 1, !.op = "Flush"])
               /\ hist' = NoteError(t, fl.err)
          ELSE /\ Return(t, RetOf([NoCall EXCEPT !.seq = nops + 1, !.op = "Flush"], "nil"))
               /\ hist' = hist
    /\ UNCHANGED <<client, state, error, flusher, incomingMessages, mu, streamConns, streams,
                   StreamConnCh, rd, panic>>

\* Close: err := c.close()
CloseCall(t) ==
    /\ At(t, "idle")
    /\ pc' = [pc EXCEPT ![t] = "close_cas"]
    /\ call' = [call EXCEPT ![t] = [NoCall EXCEPT !.seq = nops + 1, !.op = "Close", !.via = "Close",
                                                  !.path = "close"]]
    /\ UNCHANGED <<state, error, writer, flusher, incomingMessages, mu, wg, conn, streamConns,
                   streams, StreamConnCh, rd, ret, panic, hist>>

\* one Close call of the application
Close(t) ==
    /\ nops < MaxOps
    /\ nops' = nops + 1
    /\ CloseCall(t)
    /\ client' = client

\* Raw: _ = c.close(), and the stream is returned
Raw(t) ==
    /\ At(t, "idle")
    /\ nops < MaxOps
    /\ nops' = nops + 1
    /\ pc' = [pc EXCEPT ![t] = "close_cas"]
    /\ call' = [call EXCEPT ![t] = [NoCall EXCEPT !.seq = nops + 1, !.op = "Raw", !.via = "Raw",
                                                  !.path = "close"]]
    /\ UNCHANGED <<client, state, error, writer, flusher, incomingMessages, mu, wg, conn, streamConns,
                   streams, StreamConnCh, rd, ret, panic, hist>>

\* SetReadDeadline(t): a deadline that has passed ("past") or none (time.Time{})
SetReadDeadline(t, d) ==
    /\ At(t, "idle")
    /\ nops < MaxOps
    /\ nops' = nops + 1
    /\ conn' = [conn EXCEPT !.deadline = d]
    /\ Return(t, RetOf([NoCall EXCEPT !.seq = nops + 1, !.op = "SetReadDeadline"], "nil"))
    /\ UNCHANGED <<client, state, error, writer, flusher, incomingMessages, mu, streamConns, streams,
                   StreamConnCh, rd, panic, hist>>

\* ------------------------------------------------------------- the network
NoFault(cn) == ~cn.eof /\ cn.rfault = "nil" /\ cn.wfault = "nil"

\* the peer closes its side: reads meet EOF once the received bytes are consumed
PeerClose ==
    /\ NoFault(conn)
    /\ conn' = [conn EXCEPT !.eof = TRUE]
    /\ UNCHANGED <<client, state, error, writer, flusher, incomingMessages, mu, wg, streamConns,
                   streams, StreamConnCh, pc, call, rd, ret, nops, panic, hist>>

\* the peer goes away: reads meet EOF once the received bytes are consumed, and
\* every later write fails with an I/O error (EPIPE, ECONNRESET)
PeerReset ==
    /\ NoFault(conn)
    /\ conn' = [conn EXCEPT !.eof = TRUE, !.wfault = "EIO"]
    /\ UNCHANGED <<client, state, error, writer, flusher, incomingMessages, mu, wg, streamConns,
                   streams, StreamConnCh, pc, call, rd, ret, nops, panic, hist>>

\* the stream breaks for reading: every later read fails with an I/O error
ReadFault ==
    /\ NoFault(conn)
    /\ conn' = [conn EXCEPT !.rfault = "EIO"]
    /\ UNCHANGED <<client, state, error, writer, flusher, incomingMessages, mu, wg, streamConns,
                   streams, StreamConnCh, pc, call, rd, ret, nops, panic, hist>>

\* the stream breaks for writing: every later write fails with e
WriteFault(e) ==
    /\ NoFault(conn)
    /\ conn' = [conn EXCEPT !.wfault = e]
    /\ UNCHANGED <<client, state, error, writer, flusher, incomingMessages, mu, wg, streamConns,
                   streams, StreamConnCh, pc, call, rd, ret, nops, panic, hist>>

\* a frame of the peer arrives on the stream, once the earlier ones are read
Arrive(w) ==
    /\ conn.rcv = <<>>
    /\ NoFault(conn)
    /\ conn' = [conn EXCEPT !.rcv = w]
    /\ UNCHANGED <<client, state, error, writer, flusher, incomingMessages, mu, wg, streamConns,
                   streams, StreamConnCh, pc, call, rd, ret, nops, panic, hist>>

\* k of the bytes written to the stream reach the peer, which runs the same
\* readLoop: they become readable
Transport(k) ==
    /\ conn.out + k <= Len(conn.sent)
    /\ conn' = [conn EXCEPT !.rcv = @ \o SubSeq(conn.sent, conn.out + 1, conn.out + k),
                            !.out = conn.out + k]
    /\ UNCHANGED <<client, state, error, writer, flusher, incomingMessages, mu, wg, streamConns,
                   streams, StreamConnCh, pc, call, rd, ret, nops, panic, hist>>

\* ------------------------------------------------------------- StreamConn
\* NewStreamConn(id): a new StreamConn, stored in the map under its id
NSCreate(t, id) ==
    /\ At(t, "idle")
    /\ streams' = Append(streams, NewStream(id))
    /\ streamConns' = Store(streamConns, id, Len(streams) + 1)
    /\ Return(t, [RetOf([NoCall EXCEPT !.seq = nops + 1, !.op = "NewStreamConn"], "nil")
                     EXCEPT !.n = Len(streams) + 1])
    /\ UNCHANGED <<client, state, error, writer, flusher, incomingMessages, mu, conn, StreamConnCh,
                   rd, panic, hist>>

\* one NewStreamConn call of the application
NewStreamConn(t, id) ==
    /\ nops < MaxOps
    /\ nops' = nops + 1
    /\ NSCreate(t, id)

\* the NewStreamConn call that opens the stream id, made once per id
OpenStream(t, id) ==
    /\ Lookup(streamConns, id) = 0
    /\ NSCreate(t, id)
    /\ nops' = nops

\* StreamConn.Write(p) on the stream h: under the mutex the state check, the
\* closed check and the write of the header
StreamWrite(t, h, p) ==
    /\ At(t, "idle")
    /\ nops < MaxOps
    /\ nops' = nops + 1
    /\ mu = "none"
    /\ LET cl == [NoCall EXCEPT !.seq = nops + 1, !.op = "StreamWrite", !.h = h, !.content = Content(p)]
           header == EncodeStream(streams[h].id, Len(p))
       IN
       IF StateLoad # CONNECTED
       THEN /\ pc' = [pc EXCEPT ![t] = "sw_error"]
            /\ call' = [call EXCEPT ![t] = [cl EXCEPT !.checked = state]]
            /\ UNCHANGED <<mu, writer, conn, hist, ret, wg>>
       ELSE IF streams[h].closed
       THEN /\ Return(t, RetOf(cl, "ConnectionClosed"))
            /\ UNCHANGED <<mu, writer, conn, hist>>
       ELSE LET w == BufWrite(writer, header, conn) IN
            /\ writer' = w.w
            /\ conn' = [conn EXCEPT !.sent = w.sent]
            /\ IF w.err # "nil"
               THEN /\ pc' = [pc EXCEPT ![t] = "sw_failed"]
                    /\ call' = [call EXCEPT ![t] = [cl EXCEPT !.err = w.err]]
                    /\ hist' = NoteFrame(NoteError(t, w.err), t, header, p)
                    /\ UNCHANGED <<mu, ret, wg>>
               ELSE /\ pc' = [pc EXCEPT ![t] = "sw_payload"]
                    /\ call' = [call EXCEPT ![t] = cl]
                    /\ mu' = LockedBy(t)
                    /\ hist' = NoteFrame(hist, t, header, p)
                    /\ UNCHANGED <<ret, wg>>
    /\ UNCHANGED <<client, state, error, flusher, incomingMessages, streamConns, streams,
                   StreamConnCh, rd, panic>>

\* StreamConn.Write: under the mutex, the write of p, the wake, the return of len(p)
SWPayload(t) ==
    WritePayload(t, "sw_payload", call[t].content.bytes, "sw_failed",
                 [RetOf(call[t], "nil") EXCEPT !.n = Len(call[t].content.bytes),
                                                !.content = call[t].content], hist)

\* StreamConn.Write: the error branch of a write
SWFailed(t) == WriteFailed(t, "sw_failed", "sw_error")

\* StreamConn.Write: return 0, s.Error()
SWError(t) == ReturnError(t, "sw_error")

\* StreamConn.Close on the stream h: s.closed.Store(true)
StreamClose(t, h) ==
    /\ At(t, "idle")
    /\ nops < MaxOps
    /\ nops' = nops + 1
    /\ streams' = [streams EXCEPT ![h].closed = TRUE]
    /\ pc' = [pc EXCEPT ![t] = "sc_write"]
    /\ call' = [call EXCEPT ![t] =
                  [NoCall EXCEPT !.seq = nops + 1, !.op = "StreamClose", !.h = h,
                                 !.msg = [ZeroMessage EXCEPT !.Id = streams[h].id,
                                                             !.Operation = STREAMCLOSE]]]
    /\ UNCHANGED <<client, state, error, writer, flusher, incomingMessages, mu, wg, conn, streamConns,
                   StreamConnCh, rd, ret, panic, hist>>

\* StreamConn.Close: return s.WriteMessage(the STREAMCLOSE message, nil)
SCWrite(t) ==
    /\ WMCall(t, "sc_write", call[t])
    /\ UNCHANGED <<nops, client>>

\* StreamConn.Read(p) with len(p) = k on the stream h is called
SRCall(t, h, k) ==
    /\ At(t, "idle")
    /\ pc' = [pc EXCEPT ![t] = "sr_loop"]
    /\ call' = [call EXCEPT ![t] = [NoCall EXCEPT !.seq = nops + 1, !.op = "StreamRead", !.h = h,
                                                  !.len = k]]
    /\ UNCHANGED <<client, state, error, writer, flusher, incomingMessages, mu, wg, conn, streamConns,
                   streams, StreamConnCh, rd, ret, panic, hist>>

\* one StreamConn.Read call of the application
StreamRead(t, h, k) ==
    /\ nops < MaxOps
    /\ nops' = nops + 1
    /\ SRCall(t, h, k)

\* StreamConn.Read, the LOOP label: under the incomingBuffer mutex the state
\* check, the closed check and the read; on an empty buffer the mutex is let go
\* and the loop starts again, which changes nothing
SRLoop(t) ==
    /\ At(t, "sr_loop")
    /\ LET h == call[t].h
           b == streams[h]
           k == call[t].len
       IN
       /\ b.lock = "none"
       /\ IF state # CONNECTED \/ b.closed
          THEN /\ Return(t, [RetErr(t, "ConnectionClosed") EXCEPT !.checked = state])
               /\ streams' = streams
          ELSE /\ b.buffer # <<>>
               /\ streams' = [streams EXCEPT ![h] = BytesRead(b, k)]
               /\ Return(t, [RetErr(t, "nil") EXCEPT !.n = Min(k, Len(b.buffer)),
                                                     !.content = Content(Take(b.buffer, k))])
    /\ UNCHANGED <<client, state, error, writer, flusher, incomingMessages, mu, conn, streamConns,
                   StreamConnCh, rd, nops, panic, hist>>

\* ReadFrom(r) on the stream h; the reader r yields the chunks, then io.EOF
ReadFrom(t, h, chunks) ==
    /\ At(t, "idle")
    /\ nops < MaxOps
    /\ nops' = nops + 1
    /\ pc' = [pc EXCEPT ![t] = "rf_top"]
    /\ call' = [call EXCEPT ![t] = [NoCall EXCEPT !.seq = nops + 1, !.op = "ReadFrom", !.h = h,
                                                  !.chunks = chunks]]
    /\ UNCHANGED <<client, state, error, writer, flusher, incomingMessages, mu, wg, conn, streamConns,
                   streams, StreamConnCh, rd, ret, panic, hist>>

\* ReadFrom, top of the loop: the state check, the closed check, r.Read(buf)
RFTop(t) ==
    /\ At(t, "rf_top")
    /\ IF state # CONNECTED
       THEN Return(t, [RetErr(t, "nil") EXCEPT !.checked = state])
       ELSE IF streams[call[t].h].closed
       THEN Return(t, RetErr(t, "ConnectionClosed"))
       ELSE IF call[t].chunks = <<>>
       THEN Return(t, RetErr(t, "nil"))
       ELSE /\ pc' = [pc EXCEPT ![t] = "rf_header"]
            /\ call' = [call EXCEPT ![t].total = @ + Len(Head(call[t].chunks))]
            /\ UNCHANGED <<ret, wg>>
    /\ UNCHANGED <<client, state, error, writer, flusher, incomingMessages, mu, conn, streamConns,
                   streams, StreamConnCh, rd, nops, panic, hist>>

\* ReadFrom: s.Lock() and the write of the header; the state is not looked at
RFHeader(t) ==
    /\ At(t, "rf_header")
    /\ mu = "none"
    /\ LET header == EncodeStream(streams[call[t].h].id, Len(Head(call[t].chunks)))
           w == BufWrite(writer, header, conn)
       IN
       /\ writer' = w.w
       /\ conn' = [conn EXCEPT !.sent = w.sent]
       /\ IF w.err # "nil"
          THEN /\ pc' = [pc EXCEPT ![t] = "rf_failed"]
               /\ call' = [call EXCEPT ![t].err = w.err]
               /\ hist' = NoteFrame(NoteError(t, w.err), t, header, Head(call[t].chunks))
               /\ mu' = mu
          ELSE /\ pc' = [pc EXCEPT ![t] = "rf_payload"]
               /\ call' = call
               /\ mu' = LockedBy(t)
               /\ hist' = NoteFrame(hist, t, header, Head(call[t].chunks))
    /\ UNCHANGED <<client, state, error, flusher, incomingMessages, wg, streamConns, streams,
                   StreamConnCh, rd, ret, nops, panic>>

\* ReadFrom: under the mutex, the write of the chunk, the wake, and the loop goes on
RFPayload(t) ==
    /\ At(t, "rf_payload")
    /\ LET w == BufWrite(writer, Head(call[t].chunks), conn) IN
       /\ writer' = w.w
       /\ conn' = [conn EXCEPT !.sent = w.sent]
       /\ mu' = "none"
       /\ IF w.err # "nil"
          THEN /\ pc' = [pc EXCEPT ![t] = "rf_failed"]
               /\ call' = [call EXCEPT ![t].err = w.err]
               /\ hist' = NoteError(t, w.err)
               /\ UNCHANGED <<flusher, panic>>
          ELSE /\ flusher' = Wake(flusher)
               /\ panic' = WakePanic(flusher)
               /\ pc' = [pc EXCEPT ![t] = "rf_top"]
               /\ call' = [call EXCEPT ![t].chunks = Tail(@)]
               /\ hist' = hist
    /\ UNCHANGED <<client, state, error, incomingMessages, wg, streamConns, streams, StreamConnCh,
                   rd, ret, nops>>

\* ReadFrom: the error branch of a write
RFFailed(t) == WriteFailed(t, "rf_failed", "rf_error")

\* ReadFrom: return n, s.Error()
RFError(t) == ReturnError(t, "rf_error")


\* ------------------------------------------------------------ specifications
Msg(from, to, id, op, len) ==
    [From |-> from, To |-> to, Id |-> id, Operation |-> op, ContentLength |-> len]

\* the bytes of one frame on the wire
Wire(m, payload) == Encode(m) \o payload

NoHist ==
    [frames |-> <<>>, wrote |-> <<>>, got |-> <<>>, ioerr |-> <<>>, timedOut |-> FALSE,
     blocked |-> 0, closer |-> <<>>, closedIds |-> {}]

\* what the peer sends in the behaviours of Spec
InWires ==
    {<<>>,
     Wire(Msg(0, 0, 1, 10, 0), <<>>)}

\* the arguments of the WriteMessage calls in the behaviours of Spec
WriteInputs ==
    {[m |-> Msg(0, 0, 1, 10, 0), c |-> NilContent],
     [m |-> Msg(3, 4, 258, 10, 2), c |-> Content(<<5, 6>>)]}

\* the stream ids and the bytes of the sub-stream calls
StreamIds == {7}
Payloads == {<<8, 9>>}

Init ==
    /\ \E w \in InWires : New(w)
    /\ hist = NoHist

\* the steps of pause, close, closeWithError and killGoroutines, by any process
Shutdown(p) ==
    \/ PauseCAS(p) \/ PauseLoad(p) \/ PauseStore(p)
    \/ CloseCAS(p) \/ CloseStore(p) \/ CloseCAS2(p) \/ CloseStore2(p)
    \/ Kill(p) \/ KillWait(p) \/ CloseFlush(p) \/ CloseConn(p)
    \/ CweStore(p) \/ CweConnClose(p)

WorkerStep ==
    \/ FlushRecv \/ FlushFlush
    \/ ReadHeader \/ ReadFresh \/ ReadParse \/ ReadPush

\* the calls of the thread that uses the connection
UserStep(t) ==
    \/ \E in \in WriteInputs : WriteMessage(t, in.m, in.c)
    \/ WMContent(t) \/ WMFailed(t) \/ WMError(t)
    \/ ReadMessage(t) \/ RMPop(t) \/ RMFailed(t) \/ RMError(t)
    \/ Flush(t)
    \/ \E id \in StreamIds : NewStreamConn(t, id)
    \/ \E h \in 1..Len(streams) : \E b \in Payloads : StreamWrite(t, h, b)
    \/ SWPayload(t) \/ SWFailed(t) \/ SWError(t)

\* the calls of the thread that shuts the connection down
CloserStep(t) == Close(t) \/ Raw(t)

Network == PeerClose \/ ReadFault \/ \E e \in {"EIO", "ErrClosedPipe"} : WriteFault(e)

Next ==
    \/ WorkerStep
    \/ \E p \in Procs : Shutdown(p)
    \/ UserStep("t1")
    \/ CloserStep("t2")
    \/ Network

Spec == Init /\ [][Next]_vars

\* ------------------------------- properties of the lifecycle specification
\* the calls that check the state before they touch the writer
Checking == {"WriteMessage", "ReadMessage", "StreamWrite"}

\* the results of the calls that have returned
Rets == {ret[i] : i \in 1..Len(ret)}

\* the thread t takes a step of a call that found the state PAUSED or CLOSED
Rejected(t) ==
    /\ pc'[t] # pc[t]
    /\ \/ call[t].op \in Checking /\ call[t].checked # CONNECTED
       \/ call'[t].op \in Checking /\ call'[t].checked # CONNECTED

\* C2: a WriteMessage, ReadMessage or sub-stream Write that finds the state
\* PAUSED or CLOSED at its check returns a non-nil error, and none of its steps
\* appends to the writer, posts a wake to the flusher or touches the stream
C2_Rejected ==
    [][\A t \in Threads :
         Rejected(t) =>
            /\ UNCHANGED <<writer, flusher, conn>>
            /\ pc'[t] = "idle" => ret'[Len(ret')].err # "nil"]_vars

C2_Witness ==
    \E r \in Rets : r.op = "StreamWrite" /\ r.checked = PAUSED /\ r.err = "ConnectionPaused"

\* C3 as stated: whenever a call to Close has returned, the reader and the
\* flusher have both exited
C3_WorkersExited ==
    (\E r \in Rets : r.op = "Close") => pc["reader"] = "done" /\ pc["flusher"] = "done"

\* the thread t takes a step of a Close that it calls after a Close of its own returned
SecondClose(t) ==
    /\ pc'[t] # pc[t]
    /\ \/ call[t].op = "Close"
       \/ call'[t].op = "Close"
    /\ \E r \in Rets : r.op = "Close" /\ r.t = t

\* C4: a second Close returns nil and changes nothing: not the state, the
\* error, the incoming queue, the flusher channel, the writer or the stream
C4_Idempotent ==
    [][\A t \in Threads :
         SecondClose(t) =>
            /\ state = CLOSED
            /\ UNCHANGED <<state, error, incomingMessages, flusher, writer, conn>>
            /\ pc'[t] = "idle" => ret'[Len(ret')].err = "nil"]_vars

C4_Witness ==
    \E i, j \in 1..Len(ret) :
        /\ i < j
        /\ ret[i].op = "Close" /\ ret[j].op = "Close" /\ ret[i].t = ret[j].t
        /\ ret[j].err = "nil"
        /\ state = CLOSED /\ conn.closes = 1

\* the application thread t is inside Close or Raw
InCloseOrRaw(t) == call[t].via \in {"Close", "Raw"}

\* C6 as stated: the state only moves CONNECTED to PAUSED, CONNECTED to CLOSED
\* and PAUSED to CLOSED; a PAUSED connection is moved to CLOSED only by a Close
\* or Raw of the application, and while PAUSED its stream is not closed
C6_Transitions ==
    [][/\ state' # state =>
            <<state, state'>> \in {<<CONNECTED, PAUSED>>, <<CONNECTED, CLOSED>>, <<PAUSED, CLOSED>>}
       /\ state = PAUSED /\ state' = CLOSED =>
            \E t \in Threads : pc'[t] # pc[t] /\ InCloseOrRaw(t)
       /\ state = PAUSED => conn'.closes = conn.closes]_vars

\* a step of a worker, of a shutdown or of a call in progress: what the program
\* does without a new call of the application and without the network
Progress ==
    \/ WorkerStep
    \/ \E p \in Procs : Shutdown(p)
    \/ \E t \in Threads :
          \/ WMContent(t) \/ WMFailed(t) \/ WMError(t)
          \/ RMPop(t) \/ RMFailed(t) \/ RMError(t)
          \/ SWPayload(t) \/ SWFailed(t) \/ SWError(t)

\* the application has called Close or Raw
AppClosed ==
    \/ \E t \in Threads : InCloseOrRaw(t)
    \/ \E r \in Rets : r.op \in {"Close", "Raw"}

\* C9 as stated, for the runs in which the application never calls Close or
\* Raw: once an I/O error that is neither a timeout nor EOF has been met while
\* CONNECTED, the program does not come to rest before the state is CLOSED,
\* Error() is that error and the stream is closed
C9_ClosedWithError ==
    (hist.ioerr # <<>> /\ ~AppClosed /\ ~ENABLED Progress) =>
        state = CLOSED /\ error = hist.ioerr[2] /\ conn.closes > 0

\* C7: the incoming queue and the flusher channel are closed at most once
C7_KillOnce ==
    /\ incomingMessages.closes <= 1
    /\ flusher.closes <= 1
    /\ panic # "close of closed channel"

C7_Witness ==
    /\ incomingMessages.closes = 1
    /\ flusher.closes = 1
    /\ \E p, q \in Procs : p # q /\ pc[p] = "close_store2" /\ pc[q] = "kill_wait"

\* ------------------------------------------------- the peer that goes away
\* the calls of the thread that uses the connection while the peer goes away
PeerUser(t) ==
    \/ WriteMessage(t, Msg(0, 0, 1, 10, 0), NilContent)
    \/ WMFailed(t) \/ WMError(t)
    \/ ReadMessage(t) \/ RMPop(t) \/ RMFailed(t) \/ RMError(t)

PeerNext ==
    \/ WorkerStep
    \/ \E p \in Procs : Shutdown(p)
    \/ PeerUser("t1")
    \/ Close("t2")
    \/ PeerClose \/ PeerReset

SpecPeer == Init /\ [][PeerNext]_vars

\* the reader has met EOF while CONNECTED with a caller waiting in ReadMessage,
\* and its pause has moved the connection to PAUSED
ReaderPaused ==
    /\ hist.blocked # 0
    /\ call["reader"].path = "pause"
    /\ pc["reader"] \in {"pause_store", "kill", "kill_wait", "done"}

\* C8 as stated, for the runs in which the application never calls Close or
\* Raw: once the reader has met EOF while CONNECTED with a caller waiting in
\* ReadMessage and has moved the connection to PAUSED, the state stays PAUSED,
\* the stream is not closed, Error() is ConnectionPaused once pause has stored
\* it, and the waiting call returns ConnectionPaused
C8_Paused ==
    (ReaderPaused /\ ~AppClosed) =>
        /\ state = PAUSED
        /\ conn.closes = 0
        /\ pc["reader"] # "pause_store" => error = "ConnectionPaused"
        /\ \A r \in Rets : r.seq = hist.blocked => r.err = "ConnectionPaused"
\* ------------------------------------------- two endpoints running this code
\* the connection after construction, nothing received yet
InitQuiet ==
    /\ New(<<>>)
    /\ hist = NoHist

\* the arguments of the WriteMessage calls of the sending side
WireInputs ==
    {[m |-> Msg(0, 0, 1, 10, 0), c |-> NilContent],
     [m |-> Msg(3, 4, 258, 10, 2), c |-> Content(<<5, 6>>)],
     [m |-> Msg(0, 0, 2, 10, 2), c |-> NilContent]}

\* the reactor of the receiving side: ReadMessage in a loop
ReactorRead(t) ==
    /\ RMCheck(t)
    /\ UNCHANGED <<nops, client>>

\* the steps of the reader that take bytes from the stream or dispatch a frame
ReaderSteps ==
    \/ ReadHeader \/ ReadFresh \/ ReadTopup \/ ReadContent \/ ReadParse \/ ReadPush

\* what one side writes is what the reader of the other side, the same code, reads
WireNext ==
    \/ \E in \in WireInputs : WriteMessage("t1", in.m, in.c)
    \/ WMContent("t1")
    \/ FlushRecv \/ FlushFlush
    \/ \E k \in 1..(2 * MessageSize) : Transport(k)
    \/ ReaderSteps
    \/ ReactorRead("t2") \/ RMPop("t2")

SpecWire == InitQuiet /\ [][WireNext]_vars

\* the packet pk carries the header and the payload bytes of the written w
SamePacket(pk, w) == pk.Message = w.Message /\ pk.Content.bytes = w.Content.bytes

\* C1 as stated: the packets ReadMessage has returned are, in order, the
\* headers and payloads of the WriteMessage calls that returned nil
C1_InOrder ==
    /\ Len(hist.got) <= Len(hist.wrote)
    /\ \A i \in 1..Len(hist.got) : i <= Len(hist.wrote) => SamePacket(hist.got[i], hist.wrote[i])

\* ------------------------------------------------------ concurrent writers
\* the chunks the io.Reader of a ReadFrom call yields
ReadFromInputs == {<< <<8>>, <<9>> >>}

\* the calls of one of the writing threads
WriterStep(t) ==
    \/ \E in \in WriteInputs : WriteMessage(t, in.m, in.c)
    \/ WMContent(t)
    \/ \E id \in StreamIds : OpenStream(t, id)
    \/ \E h \in 1..Len(streams) : \E b \in Payloads : StreamWrite(t, h, b)
    \/ SWPayload(t)
    \/ \E h \in 1..Len(streams) : \E cs \in ReadFromInputs : ReadFrom(t, h, cs)
    \/ RFTop(t) \/ RFHeader(t) \/ RFPayload(t)

WritersNext ==
    \/ \E t \in Threads : WriterStep(t)
    \/ FlushRecv \/ FlushFlush

SpecWriters == InitQuiet /\ [][WritersNext]_vars

\* the labels at which a call has written its header and not yet its payload
PayloadLabels == {"wm_content", "sw_payload", "rf_payload"}

\* the frame i is the one its writer is still in the middle of
InProgress(i) ==
    /\ pc[hist.frames[i].by] \in PayloadLabels
    /\ \A j \in (i + 1)..Len(hist.frames) : hist.frames[j].by # hist.frames[i].by

\* the bytes the frames make, in the order the mutex was taken
FrameBytes ==
    Flatten([i \in 1..Len(hist.frames) |->
                IF InProgress(i) THEN hist.frames[i].header
                ELSE hist.frames[i].header \o hist.frames[i].payload])

\* C5: the bytes appended to the writer (those already written through to the
\* stream, then those buffered) are the frames of the calls in the order they
\* took the mutex, each header followed at once by the payload of its call
C5_WholeFrames == conn.sent \o writer.buf = FrameBytes

C5_Witness ==
    /\ Len(hist.frames) >= 2
    /\ hist.frames[1].by # hist.frames[2].by
    /\ hist.frames[1].payload # <<>> /\ hist.frames[2].payload # <<>>
    /\ \A t \in Threads : pc[t] = "idle"
    /\ Len(conn.sent) > 0

\* ------------------------------------------------------- the read deadline
DeadlineNext ==
    \/ ReadHeader \/ ReadFresh \/ ReadParse \/ ReadPush
    \/ ReadMessage("t1") \/ RMPop("t1")
    \/ \E d \in {"past", "none"} : SetReadDeadline("t2", d)
    \/ Arrive(Wire(Msg(0, 0, 1, 10, 0), <<>>))

SpecDeadline == InitQuiet /\ [][DeadlineNext]_vars

\* C10 as stated: after a read of the reader timed out while CONNECTED, the
\* state is CONNECTED, the error cell is as New left it, and a frame that
\* arrives once the deadline is cleared is taken by the reader whenever the
\* queue has room, so that ReadMessage delivers it
C10_StillReading ==
    hist.timedOut =>
        /\ state = CONNECTED
        /\ error = NewError
        /\ (conn.deadline = "none" /\ conn.rcv # <<>> /\ ~QueueFull(incomingMessages))
              => ENABLED ReaderSteps

\* ------------------------------------------------------------ the error cell
\* no process has met an error, is inside closeWithError, Close or Raw, or has
\* been handed an error by a call
NoErrorYet ==
    /\ hist.ioerr = <<>> /\ ~hist.timedOut /\ hist.blocked = 0
    /\ \A p \in Procs : call[p].via = "none" /\ call[p].err = "nil"
    /\ \A r \in Rets : r.err = "nil"

\* C11 as stated: Error() is nil on a CONNECTED connection on which no error
\* has occurred, from its creation on, and is not nil in every other state
C11_ErrorNil ==
    /\ (state = CONNECTED /\ NoErrorYet) => error = "nil"
    /\ state # CONNECTED => error # "nil"

\* ------------------------------------------- sub-streams opened by the peer
\* the frames of the peer's StreamConn.Write(p) and StreamConn.Close on the id
StreamFrame(id, p) == EncodeStream(id, Len(p)) \o p

StreamCloseFrame(id) == Encode(Msg(0, 0, id, STREAMCLOSE, 0))

\* what the peer sends in the behaviours of SpecRemote: a stream that is
\* written, closed and written again; a stream closed before it was written;
\* and a STREAM frame whose payload has arrived in part
RemoteWires ==
    {StreamFrame(7, <<8, 9>>) \o StreamCloseFrame(7) \o StreamFrame(7, <<5>>),
     StreamCloseFrame(7) \o StreamFrame(7, <<8, 9>>),
     EncodeStream(7, 4) \o <<8, 9, 5>>}

InitRemote ==
    /\ \E w \in RemoteWires : New(w)
    /\ hist = NoHist

\* the sizes of the slices the application passes to StreamConn.Read
ReadSizes == {1, 2}

\* the calls of a thread that uses the sub-streams
StreamUser(t) ==
    \/ \E id \in StreamIds : OpenStream(t, id)
    \/ \E h \in 1..Len(streams) : \E k \in ReadSizes : StreamRead(t, h, k)
    \/ SRLoop(t)
    \/ \E h \in 1..Len(streams) : StreamClose(t, h)
    \/ SCWrite(t)

\* the steps of the reader on a stream that carries STREAM and STREAMCLOSE frames
StreamReaderSteps ==
    \/ ReadHeader \/ ReadFresh \/ ReadTopup \/ ReadParse \/ ReadCopyN

RemoteNext ==
    \/ FlushRecv \/ FlushFlush
    \/ StreamReaderSteps
    \/ \E t \in Threads : StreamUser(t)

SpecRemote == InitRemote /\ [][RemoteNext]_vars

\* the reader announces the sub-stream h on the new-stream channel in this step
Announces(h) == StreamConnCh' = Append(StreamConnCh, h)

\* C12 as stated: a sub-stream is announced on the new-stream channel only
\* while the reader handles a STREAM frame with its id, and only if no
\* STREAMCLOSE frame with that id was received before
C12_Announced ==
    [][\A h \in 1..Len(streams') :
         Announces(h) =>
            /\ rd'.msg.Operation = STREAM /\ rd'.msg.Id = streams'[h].id
            /\ streams'[h].id \notin hist.closedIds]_vars

\* a StreamConn.Close of the application on the sub-stream h has not returned yet
Closing(h) == \E t \in Threads : call[t].op = "StreamClose" /\ call[t].h = h

\* C14 as stated: the id of a sub-stream is a key of the sub-stream map, and
\* maps to it, exactly while the sub-stream is live: not once the reader has
\* handled a STREAMCLOSE frame for it or a local Close of it has returned
C14_MapLive ==
    \A h \in 1..Len(streams) :
        /\ ~streams[h].closed => Lookup(streamConns, streams[h].id) = h
        /\ (streams[h].closed /\ ~Closing(h)) => Lookup(streamConns, streams[h].id) # h

\* ---------------------------------------- a sub-stream between two endpoints
\* a payload one cell longer than DefaultBufferSize
BigPayload == [i \in 1..(BufSize + 1) |-> i]

\* the arguments of the StreamConn.Write calls of the sending side
StreamInputs == {<<5>>, BigPayload}

\* the receiving side reads its end of the sub-stream in a loop
DrainRead(t) ==
    /\ \E h \in 1..Len(streams) : \E k \in ReadSizes : SRCall(t, h, k)
    /\ nops' = nops

\* what the program does without a new call of the application
StreamProgress ==
    \/ SWPayload("t1")
    \/ FlushRecv \/ FlushFlush
    \/ \E k \in {1, BufSize} : Transport(k)
    \/ StreamReaderSteps
    \/ SRLoop("t2")

\* what one side writes on the sub-stream is what the reader of the other side,
\* the same code, receives
StreamNext ==
    \/ \E id \in StreamIds : OpenStream("t1", id)
    \/ \E h \in 1..Len(streams) : \E b \in StreamInputs : StreamWrite("t1", h, b)
    \/ DrainRead("t2")
    \/ StreamProgress

SpecStream == InitQuiet /\ [][StreamNext]_vars

\* the bytes of the calls of the operation op that returned nil, in the order
\* they returned
RECURSIVE BytesOf(_, _)
BytesOf(op, rs) ==
    IF rs = <<>> THEN <<>>
    ELSE (IF Head(rs).op = op /\ Head(rs).err = "nil" THEN Head(rs).content.bytes ELSE <<>>)
            \o BytesOf(op, Tail(rs))

\* nothing is left to do, and the receiving side waits in StreamConn.Read
StreamAtRest ==
    /\ pc["t1"] = "idle" /\ pc["t2"] = "sr_loop"
    /\ ~ENABLED StreamProgress

\* C13 as stated: the bytes the Read calls have returned are the first bytes
\* of those the Write calls were given, and all of them once every byte
\* written has had the time to arrive
C13_SameBytes ==
    /\ IsPrefix(BytesOf("StreamRead", ret), BytesOf("StreamWrite", ret))
    /\ StreamAtRest => BytesOf("StreamRead", ret) = BytesOf("StreamWrite", ret)

\* ------------------------------------------------- the outbound byte stream
\* what the WriteMessage calls that returned nil have appended to the writer,
\* call by call
Units == [i \in 1..Len(hist.wrote) |-> Encode(hist.wrote[i].Message) \o hist.wrote[i].Content.bytes]

\* C15 as stated: between the calls, the bytes appended to the writer are, for
\* each call that returned nil, its header followed by exactly ContentLength
\* payload bytes, a nil payload included
C15_WellFormed ==
    pc["t1"] = "idle" =>
        /\ conn.sent \o writer.buf = Flatten(Units)
        /\ \A i \in 1..Len(hist.wrote) :
              Len(hist.wrote[i].Content.bytes) = hist.wrote[i].Message.ContentLength

\* ------------------------------------------------------- the graceful Close
\* the close() of the entry point via has performed the transition from
\* CONNECTED to CLOSED
ClosedVia(via) == hist.closer # <<>> /\ hist.closer[2] = via

\* C16: once the Close that moved the connection from CONNECTED to CLOSED has
\* closed the stream, and no write to the stream has failed, no call is in the
\* middle of a frame, nothing is left in the writer and the stream has been
\* given the frames of all the write calls that were accepted, in full
C16_Flushed ==
    (ClosedVia("Close") /\ conn.closes > 0 /\ writer.err = "nil") =>
        /\ \A t \in Threads : pc[t] \notin PayloadLabels
        /\ writer.buf = <<>>
        /\ conn.sent = FrameBytes

\* a write call that was made after Close was called, and returned nil before it
C16_Witness ==
    /\ ClosedVia("Close") /\ conn.closes > 0 /\ writer.err = "nil"
    /\ \E i \in 1..Len(ret) :
          /\ ret[i].op \in {"WriteMessage", "StreamWrite"} /\ ret[i].err = "nil"
          /\ conn.sent # <<>>
          /\ \E j \in 1..Len(ret) : i < j /\ ret[j].op = "Close" /\ ret[j].seq < ret[i].seq

\* C17: when Raw has moved the connection from CONNECTED to CLOSED, the stream
\* is not closed: not by Raw, and not by any later Close, error path of a
\* worker or call of the application
C17_RawOpen == ClosedVia("Raw") => conn.closes = 0

\* Raw has returned, a Close called after it has returned too, and both
\* workers have left through their error paths
C17_Witness ==
    /\ ClosedVia("Raw") /\ conn.closes = 0
    /\ \E i, j \in 1..Len(ret) : i < j /\ ret[i].op = "Raw" /\ ret[j].op = "Close"
    /\ pc["reader"] = "done" /\ pc["flusher"] = "done"

\* ----------------------------------------------- Flush after the connection
\* the thread t calls Flush in this step
FlushCalled(t) ==
    /\ pc[t] = "idle"
    /\ \/ call'[t].op = "Flush"
       \/ Len(ret') = Len(ret) + 1 /\ ret'[Len(ret')].op = "Flush" /\ ret'[Len(ret')].t = t

\* C18 as stated: a Flush called while the state is PAUSED or CLOSED writes
\* nothing to the stream, whatever the writer still holds
C18_FlushIdle ==
    [][\A t \in Threads :
         (FlushCalled(t) /\ state # CONNECTED) => conn'.sent = conn.sent]_vars

\* ------------------------------------- sub-streams while the connection ends
\* what the peer has sent in the behaviours of SpecDown: nothing, or a STREAM
\* frame whose payload has arrived in part
DownWires == {<<>>, EncodeStream(7, 4) \o <<8, 9, 5>>}

InitDown ==
    /\ \E w \in DownWires : New(w)
    /\ hist = NoHist

\* the calls of the thread that uses a sub-stream while the connection ends
DownUser(t) ==
    \/ \E id \in StreamIds : OpenStream(t, id)
    \/ \E h \in 1..Len(streams) : \E k \in ReadSizes : StreamRead(t, h, k)
    \/ SRLoop(t)
    \/ \E h \in 1..Len(streams) : \E cs \in ReadFromInputs : ReadFrom(t, h, cs)
    \/ RFTop(t) \/ RFHeader(t) \/ RFPayload(t) \/ RFFailed(t) \/ RFError(t)

DownNext ==
    \/ FlushRecv \/ FlushFlush
    \/ ReadHeader \/ ReadParse \/ ReadCopyN
    \/ \E p \in Procs : Shutdown(p)
    \/ DownUser("t1")
    \/ Close("t2")
    \/ PeerClose \/ WriteFault("EIO")

SpecDown == InitDown /\ [][DownNext]_vars

\* C19 as stated: a ReadFrom that stops because the connection is not
\* CONNECTED returns an error
C19_ReadFromError ==
    \A r \in Rets : (r.op = "ReadFrom" /\ r.checked # CONNECTED) => r.err # "nil"

\* C20 as stated, in the runs where the reader has exited: a sub-stream Read
\* that waits while the connection is not CONNECTED, or the sub-stream is
\* closed, is able to take its next step, which returns ConnectionClosed
C20_ReadReturns ==
    \A t \in Threads :
        (/\ pc[t] = "sr_loop"
         /\ state # CONNECTED \/ streams[call[t].h].closed
         /\ pc["reader"] = "done")
            => ENABLED SRLoop(t)

\* ------------------------------------------- a worker that shuts itself down
\* C21 as stated: a worker that routes an error of its own through
\* closeWithError goes on to its exit; when its call is the one that runs
\* killGoroutines, its wait for the workers ends once the other worker has exited
C21_WorkerExits ==
    \A p \in Workers :
        (/\ panic = "none"
         /\ pc[p] = "kill_wait"
         /\ \A q \in Workers \ {p} : pc[q] = "done")
            => ENABLED KillWait(p)

\* ------------------------------------------- a pause that races with a Close
\* a WriteMessage whose payload does not fit behind its header in the writer,
\* so that the write goes through to the stream inside the call
PauseInputs == {[m |-> Msg(0, 0, 1, 10, 3), c |-> Content(<<5, 6, 7>>)]}

PauseNext ==
    \/ \E in \in PauseInputs : WriteMessage("t1", in.m, in.c)
    \/ WMContent("t1") \/ WMFailed("t1") \/ WMError("t1")
    \/ Close("t2")
    \/ \E p \in Procs : Shutdown(p)
    \/ FlushRecv \/ FlushFlush
    \/ ReadHeader
    \/ \E e \in {"EIO", "ErrClosedPipe"} : WriteFault(e)

SpecPause == InitQuiet /\ [][PauseNext]_vars

\* the process p is inside closeWithError, Close or Raw
Transitioning(p) == call[p].via # "none" /\ pc[p] \notin {"idle", "done"}

\* C22 as stated: when every pause, close and closeWithError call has returned,
\* a PAUSED connection has the error ConnectionPaused, and a CLOSED one has
\* ConnectionClosed or the error that closed it, never ConnectionPaused
C22_ErrorMatches ==
    (\A p \in Procs : ~Transitioning(p)) =>
        /\ state = PAUSED => error = "ConnectionPaused"
        /\ state = CLOSED => error \notin {"nil", "ConnectionPaused"}

\* ------------------------------------------------ the wake of the flusher
\* the calls of one of the threads that write while the connection is healthy
FlushWriter(t) ==
    \/ \E in \in WriteInputs : WriteMessage(t, in.m, in.c)
    \/ WMContent(t)
    \/ \E id \in StreamIds : OpenStream(t, id)
    \/ \E h \in 1..Len(streams) : \E b \in Payloads : StreamWrite(t, h, b)
    \/ SWPayload(t)

FlushNext ==
    \/ \E t \in Threads : FlushWriter(t)
    \/ FlushRecv \/ FlushFlush

\* the Go scheduler runs every goroutine that can run: the flusher, and a
\* writer that holds the mutex between its header and its payload
FlushFair ==
    /\ WF_vars(FlushRecv)
    /\ WF_vars(FlushFlush)
    /\ \A t \in Threads : WF_vars(WMContent(t)) /\ WF_vars(SWPayload(t))

SpecFlush == InitQuiet /\ [][FlushNext]_vars /\ FlushFair

\* C23: on a connection that stays CONNECTED and meets no I/O error, bytes that
\* are buffered in the writer are flushed to the stream later on, in every
\* interleaving of the writers with the flusher, also when a write posted no
\* wake because one was pending
C23_EventuallyFlushed == (writer.buf # <<>>) ~> (writer.buf = <<>> /\ conn.sent = FrameBytes)

\* two calls have returned nil and the flusher has not flushed since the first
\* one (the writer itself has written the first BufSize cells through): one
\* wake is pending for both calls, the second call posted none, and bytes of
\* the second frame wait in the writer
C23_Witness ==
    /\ Len(hist.frames) = 2
    /\ \A t \in Threads : pc[t] = "idle"
    /\ \A i \in 1..Len(ret) : ret[i].err = "nil"
    /\ conn.sent = Take(FrameBytes, BufSize)
    /\ writer.buf = Drop(FrameBytes, BufSize) /\ writer.buf # <<>>
    /\ Len(hist.frames[1].header \o hist.frames[1].payload) < BufSize
    /\ flusher.n = 1 /\ pc["flusher"] = "fl_recv"

\* ------------------------------------------------------ Client: the reactor
\* the result of the last call of the process t that has returned
LastRet(t) ==
    LET I == {i \in 1..Len(ret) : ret[i].t = t}
    IN  IF I = {} THEN NoRet ELSE ret[CHOOSE i \in I : \A j \in I : j <= i]

\* what a ClientRouterFunc returns: outgoingMessage (nil or a Message),
\* outgoingContent and action
Reply(m, content, action) == [nil |-> FALSE, msg |-> m, content |-> content, action |-> action]
NoReply(action) == [nil |-> TRUE, msg |-> ZeroMessage, content |-> <<>>, action |-> action]

\* the handlers the application has registered, by operation: a reply with its
\* payload and CLOSE; a reply whose ContentLength is not the length of its
\* payload, and CLOSE; no reply; a reply without payload
Handlers ==
    [op \in 10..13 |->
        IF op = 10 THEN Reply(Msg(0, 0, 1, 20, 3), <<5, 6, 7>>, "CLOSE")
        ELSE IF op = 11 THEN Reply(Msg(0, 0, 2, 21, 2), <<5>>, "CLOSE")
        ELSE IF op = 12 THEN NoReply("NONE")
        ELSE Reply(Msg(0, 0, 3, 22, 0), <<>>, "NONE")]

\* outgoingMessage != nil && outgoingMessage.ContentLength == uint64(len(outgoingContent))
ReplyOk(h) == ~h.nil /\ h.msg.ContentLength = Len(h.content)

\* Client.Close: c.closed.Store(true), then c.conn.Close()
ClientClose(t) ==
    /\ CloseCall(t)
    /\ nops' = nops

\* reactor, top of the loop: if c.closed.Load() { return }
RxTop(t) ==
    /\ At(t, "idle")
    /\ client.reactor = "top"
    /\ client' = [client EXCEPT !.reactor = IF client.closed THEN "exit" ELSE "call"]
    /\ UNCHANGED <<state, error, writer, flusher, incomingMessages, mu, wg, conn, streamConns,
                   streams, StreamConnCh, pc, call, rd, ret, nops, panic, hist>>

\* reactor: c.conn.ReadMessage() is called
RxRead(t) ==
    /\ client.reactor = "call"
    /\ RMCheck(t)
    /\ client' = [client EXCEPT !.reactor = "read"]
    /\ nops' = nops

\* reactor, ReadMessage has returned: on an error Close and return; else the
\* handler of the operation is called, its reply is written if ReplyOk, and its
\* action is kept; the HEARTBEAT handler sends on the heartbeat channel
RxDispatch(t) ==
    /\ At(t, "idle")
    /\ client.reactor = "read"
    /\ LET r == LastRet(t)
           op == r.msg.Operation
       IN
       IF r.err # "nil"
       THEN /\ ClientClose(t)
            /\ client' = [client EXCEPT !.closed = TRUE, !.reactor = "exit"]
       ELSE IF op = HEARTBEAT
       THEN /\ client.heartbeatChannel < 1
            /\ client' = [client EXCEPT !.heartbeatChannel = @ + 1, !.reactor = "top"]
            /\ UNCHANGED <<state, error, writer, flusher, incomingMessages, mu, wg, conn,
                           streamConns, streams, StreamConnCh, pc, call, rd, ret, nops,
                           panic, hist>>
       ELSE IF op \notin DOMAIN Handlers
       THEN /\ client' = [client EXCEPT !.reactor = "top"]
            /\ UNCHANGED <<state, error, writer, flusher, incomingMessages, mu, wg, conn,
                           streamConns, streams, StreamConnCh, pc, call, rd, ret, nops,
                           panic, hist>>
       ELSE IF ReplyOk(Handlers[op])
       THEN /\ WMCall(t, "idle", [NoCall EXCEPT !.seq = nops + 1, !.op = "WriteMessage",
                                               !.msg = Handlers[op].msg,
                                               !.content = Content(Handlers[op].content)])
            /\ client' = [client EXCEPT !.reactor = "write", !.action = Handlers[op].action]
            /\ nops' = nops
       ELSE /\ client' = [client EXCEPT !.reactor = "action", !.action = Handlers[op].action]
            /\ UNCHANGED <<state, error, writer, flusher, incomingMessages, mu, wg, conn,
                           streamConns, streams, StreamConnCh, pc, call, rd, ret, nops,
                           panic, hist>>

\* reactor, WriteMessage has returned: on an error Close and return
RxWritten(t) ==
    /\ At(t, "idle")
    /\ client.reactor = "write"
    /\ IF LastRet(t).err # "nil"
       THEN /\ ClientClose(t)
            /\ client' = [client EXCEPT !.closed = TRUE, !.reactor = "exit"]
       ELSE /\ client' = [client EXCEPT !.reactor = "action"]
            /\ UNCHANGED <<state, error, writer, flusher, incomingMessages, mu, wg, conn,
                           streamConns, streams, StreamConnCh, pc, call, rd, ret, nops,
                           panic, hist>>

\* reactor: switch action; CLOSE and SHUTDOWN close the client and return
RxAction(t) ==
    /\ At(t, "idle")
    /\ client.reactor = "action"
    /\ IF client.action \in {"CLOSE", "SHUTDOWN"}
       THEN /\ ClientClose(t)
            /\ client' = [client EXCEPT !.closed = TRUE, !.reactor = "exit"]
       ELSE /\ client' = [client EXCEPT !.reactor = "top"]
            /\ UNCHANGED <<state, error, writer, flusher, incomingMessages, mu, wg, conn,
                           streamConns, streams, StreamConnCh, pc, call, rd, ret, nops,
                           panic, hist>>

\* the steps of the goroutine that runs Client.reactor
Reactor(t) ==
    \/ RxTop(t) \/ RxRead(t) \/ RMPop(t) \/ RMFailed(t) \/ RMError(t)
    \/ RxDispatch(t) \/ WMContent(t) \/ WMFailed(t) \/ WMError(t)
    \/ RxWritten(t) \/ RxAction(t)

\* what the server sends in the behaviours of SpecReactor
ReactorWires ==
    {Wire(Msg(0, 0, 1, 12, 0), <<>>) \o Wire(Msg(0, 0, 2, 10, 0), <<>>),
     Wire(Msg(0, 0, 1, 13, 0), <<>>) \o Wire(Msg(0, 0, 2, 11, 0), <<>>),
     Wire(Msg(0, 0, 1, 14, 0), <<>>)}

InitReactor ==
    /\ \E w \in ReactorWires : New(w)
    /\ hist = NoHist

ReactorNext ==
    \/ FlushRecv \/ FlushFlush
    \/ ReadHeader \/ ReadFresh \/ ReadTopup \/ ReadParse \/ ReadPush
    \/ \E p \in Procs : Shutdown(p)
    \/ Reactor("t1")
    \/ PeerClose \/ WriteFault("EIO")

SpecReactor == InitReactor /\ [][ReactorNext]_vars

\* the reactor t goes on from a packet whose operation has a handler
Dispatches(t) ==
    /\ client.reactor = "read" /\ client'.reactor # "read"
    /\ LastRet(t).err = "nil"
    /\ LastRet(t).msg.Operation \in DOMAIN Handlers

\* the call that the reactor t makes in this step is WriteMessage with the
\* reply and its payload
WritesReply(t, h) ==
    call'[t].op = "WriteMessage" /\ call'[t].msg = h.msg /\ call'[t].content = Content(h.content)

\* the last WriteMessage that returned nil wrote the reply of a handler that
\* returned CLOSE with it
ClosingReply ==
    /\ hist.wrote # <<>>
    /\ \E op \in DOMAIN Handlers :
          /\ Handlers[op].action = "CLOSE"
          /\ hist.wrote[Len(hist.wrote)] =
                [Message |-> Handlers[op].msg, Content |-> Content(Handlers[op].content)]

\* what the reactor does keep: it writes the reply exactly when it is not nil
\* and its ContentLength is the length of its payload, it keeps the action and
\* applies it after the write has returned, also when the reply was skipped,
\* and a client closed after a CLOSE reply was closed by the reactor's switch
ReplyThenAction ==
    /\ [][Dispatches("t1") =>
            LET h == Handlers[LastRet("t1").msg.Operation] IN
            /\ (~h.nil /\ h.msg.ContentLength = Len(h.content)) <=> client'.reactor = "write"
            /\ client'.reactor = "write" => WritesReply("t1", h)
            /\ client'.reactor \in {"write", "action"}
            /\ client'.action = h.action]_vars
    /\ [](client.reactor = "action" => pc["t1"] = "idle" /\ (panic = "none" => ENABLED RxAction("t1")))
    /\ []((ClosingReply /\ client.closed) => client.reactor = "exit" /\ client.action = "CLOSE")

\* C24: a reply that a handler returned together with the action CLOSE has
\* reached the stream in full when the reactor's Close has closed the stream,
\* no write to the stream having failed
C24_ReplyReachesStream ==
    (ClosingReply /\ client.reactor = "exit" /\ conn.closes > 0 /\ writer.err = "nil") =>
        conn.sent = FrameBytes

\* --------------------------------------- the inbound stream, however it is cut
\* the payloads of the StreamConn.Write calls of the sending side
SplitPayloads == {<<8, 9>>, <<>>}

\* a StreamConn.Write call of the sending side on one of its sub-streams
SplitWrite(t) == \E h \in 1..Len(streams) : \E p \in SplitPayloads : StreamWrite(t, h, p)

\* the sending side writes well-formed frames, messages and sub-stream frames,
\* and the bytes reach the reader of the receiving side, the same code, cut in
\* every way: Transport moves any number of them, and one c.conn.Read takes
\* what has arrived, as far as its slice has room
SplitNext ==
    \/ \E in \in WriteInputs : WriteMessage("t1", in.m, in.c)
    \/ WMContent("t1")
    \/ \E id \in StreamIds : OpenStream("t1", id)
    \/ SplitWrite("t1")
    \/ SWPayload("t1")
    \/ FlushRecv \/ FlushFlush
    \/ \E k \in 1..(2 * MessageSize) : Transport(k)
    \/ ReaderSteps \/ ReadCopyN

SpecSplit == InitQuiet /\ [][SplitNext]_vars

\* a frame that is not a sub-stream frame
IsMessageFrame(f) == Decode(f.header).Operation # STREAM

\* the packet a frame stands for
PacketOf(f) ==
    [Message |-> Decode(f.header),
     Content |-> IF Decode(f.header).ContentLength > 0 THEN Content(f.payload) ELSE NilContent]

\* the packets of the frames written that are not sub-stream frames, in order
ExpectedPackets ==
    LET fs == SelectSeq(hist.frames, IsMessageFrame)
    IN  [i \in 1..Len(fs) |-> PacketOf(fs[i])]

\* every byte written has arrived and the reader waits for more
SplitAtRest ==
    /\ pc["t1"] = "idle" /\ writer.buf = <<>>
    /\ conn.out = Len(conn.sent) /\ conn.rcv = <<>>
    /\ pc["reader"] \in {"rd_hdr", "rd_fresh"} /\ rd.n = 0

\* C25: however the bytes of the frames are cut across the reads, the packets
\* on the incoming queue are those of the frames that are not sub-stream
\* frames, in order, each payload as long as its ContentLength, and all of
\* them once every byte has arrived
C25_SamePackets ==
    /\ IsPrefix(incomingMessages.q, ExpectedPackets)
    /\ \A i \in 1..Len(incomingMessages.q) :
          Len(incomingMessages.q[i].Content.bytes) = incomingMessages.q[i].Message.ContentLength
    /\ SplitAtRest => incomingMessages.q = ExpectedPackets

\* ------------------------------------------------------- the client heartbeat
\* a heartbeat frame that is sent whatever WriteBufferSize returned
BufferIdle_always(n) == TRUE

\* c.conn.WriteBufferSize() == 0
BufferIdle(n) == n = 0

\* Conn.WriteBufferSize(): under the mutex, 0 when not CONNECTED, else
\* c.writer.Buffered()
WriteBufferSize == IF state # CONNECTED THEN 0 ELSE Len(writer.buf)

\* heartbeat: <-time.After(c.options.Heartbeat), one tick of the interval; the
\* ticks of an open client are counted, the timer of a closed one still fires
HbTick(p) ==
    /\ At(p, "idle")
    /\ client.heartbeat = "tick"
    /\ nops < MaxOps \/ client.closed
    /\ nops' = IF client.closed THEN nops ELSE nops + 1
    /\ client' = [client EXCEPT !.heartbeat = "check"]
    /\ UNCHANGED <<state, error, writer, flusher, incomingMessages, mu, wg, conn, streamConns,
                   streams, StreamConnCh, pc, call, rd, ret, panic, hist>>

\* heartbeat: if c.closed.Load() return
HbClosed(p) ==
    /\ At(p, "idle")
    /\ client.heartbeat = "check"
    /\ client' = [client EXCEPT !.heartbeat = IF client.closed THEN "exit" ELSE "size"]
    /\ UNCHANGED <<state, error, writer, flusher, incomingMessages, mu, wg, conn, streamConns,
                   streams, StreamConnCh, pc, call, rd, ret, nops, panic, hist>>

\* heartbeat: the call of WriteBufferSize; the tick is skipped unless it is 0
HbSize(p) ==
    /\ At(p, "idle")
    /\ client.heartbeat = "size"
    /\ mu = "none"
    /\ client' = [client EXCEPT !.seen = WriteBufferSize,
                                !.heartbeat = IF BufferIdle(WriteBufferSize) THEN "send" ELSE "tick"]
    /\ UNCHANGED <<state, error, writer, flusher, incomingMessages, mu, wg, conn, streamConns,
                   streams, StreamConnCh, pc, call, rd, ret, nops, panic, hist>>

\* heartbeat: c.WriteMessage(&Message{Operation: HEARTBEAT}, nil)
HbSend(p) ==
    /\ client.heartbeat = "send"
    /\ WMCall(p, "idle", [NoCall EXCEPT !.seq = nops + 1, !.op = "WriteMessage",
                                        !.msg = Msg(0, 0, 0, HEARTBEAT, 0)])
    /\ client' = [client EXCEPT !.heartbeat = "sent"]
    /\ nops' = nops

\* heartbeat, WriteMessage has returned: on an error Close and return, else the
\* wait for the echo begins
HbWritten(p) ==
    /\ At(p, "idle")
    /\ client.heartbeat = "sent"
    /\ IF LastRet(p).err # "nil"
       THEN /\ ClientClose(p)
            /\ client' = [client EXCEPT !.closed = TRUE, !.heartbeat = "exit"]
       ELSE /\ client' = [client EXCEPT !.heartbeat = "wait"]
            /\ UNCHANGED <<state, error, writer, flusher, incomingMessages, mu, wg, conn,
                           streamConns, streams, StreamConnCh, pc, call, rd, ret, nops,
                           panic, hist>>

\* heartbeat: <-c.heartbeatChannel, the receive of what the HEARTBEAT handler sent
HbEcho(p) ==
    /\ At(p, "idle")
    /\ client.heartbeat = "wait"
    /\ client.heartbeatChannel > 0
    /\ client' = [client EXCEPT !.heartbeatChannel = @ - 1, !.heartbeat = "tick"]
    /\ UNCHANGED <<state, error, writer, flusher, incomingMessages, mu, wg, conn, streamConns,
                   streams, StreamConnCh, pc, call, rd, ret, nops, panic, hist>>

\* the steps of the goroutine that runs Client.heartbeat
HbSteps(p) ==
    \/ HbTick(p) \/ HbClosed(p) \/ HbSize(p) \/ HbSend(p) \/ HbWritten(p) \/ HbEcho(p)

\* the server takes the next whole frame the client has sent and sends back
\* every HEARTBEAT frame
ServerEcho ==
    /\ NoFault(conn) /\ conn.closes = 0
    /\ conn.out + MessageSize <= Len(conn.sent)
    /\ LET hdr == SubSeq(conn.sent, conn.out + 1, conn.out + MessageSize)
           len == Decode(hdr).ContentLength
       IN  /\ conn.out + MessageSize + len <= Len(conn.sent)
           /\ conn' = [conn EXCEPT !.out = @ + MessageSize + len,
                                   !.rcv = IF Decode(hdr).Operation = HEARTBEAT THEN @ \o hdr ELSE @]
    /\ UNCHANGED <<client, state, error, writer, flusher, incomingMessages, mu, wg, streamConns,
                   streams, StreamConnCh, pc, call, rd, ret, nops, panic, hist>>

\* what the server sends of its own in the behaviours of SpecHeartbeat
HeartbeatWires == {<<>>, Wire(Msg(0, 0, 1, 13, 0), <<>>)}

InitHeartbeat ==
    /\ \E w \in HeartbeatWires : New(w)
    /\ hist = NoHist

\* the client while nothing fails: reactor, heartbeat, the workers of its
\* connection, its server
HeartbeatNext ==
    \/ FlushRecv \/ FlushFlush
    \/ ReadHeader \/ ReadFresh \/ ReadTopup \/ ReadParse \/ ReadPush
    \/ RxTop("t1") \/ RxRead("t1") \/ RMPop("t1") \/ RxDispatch("t1") \/ WMContent("t1")
    \/ RxWritten("t1") \/ RxAction("t1")
    \/ HbSteps("heartbeat")
    \/ ServerEcho

SpecHeartbeat == InitHeartbeat /\ [][HeartbeatNext]_vars

\* the HEARTBEAT frames the heartbeat worker has written, given the history
Emitted(h) == Cardinality({i \in 1..Len(h.frames) : h.frames[i].by = "heartbeat"})

\* the HEARTBEAT frames of the server that ReadMessage has handed to the reactor
Echoes == Cardinality({i \in 1..Len(hist.got) : hist.got[i].Message.Operation = HEARTBEAT})

\* C26: the heartbeat worker writes a HEARTBEAT frame only after a
\* WriteBufferSize() of this tick that returned 0, a tick that finds bytes
\* buffered on the CONNECTED connection writes none, and no HEARTBEAT frame is
\* written while the echo of an earlier one has not come in
C26_HeartbeatWhenIdle ==
    /\ [][Emitted(hist') # Emitted(hist) =>
            /\ client.heartbeat = "send" /\ client.seen = 0
            /\ Emitted(hist) = Echoes]_vars
    /\ [][(client.heartbeat = "size" /\ client'.heartbeat # "size"
            /\ state = CONNECTED /\ writer.buf # <<>>) =>
            client'.heartbeat = "tick" /\ Emitted(hist') = Emitted(hist)]_vars
    /\ [](Emitted(hist) <= Echoes + 1)

\* the worker has sent a heartbeat and received its echo, and has skipped the
\* next tick because the reply of the reactor was buffered
C26_Witness ==
    /\ Emitted(hist) = 1 /\ Echoes = 1
    /\ client.heartbeat = "tick" /\ client.seen > 0 /\ client.heartbeatChannel = 0
    /\ state = CONNECTED

\* -------------------------------------------------- the closed wake channel
\* C27: no writer sends on the flusher channel after killGoroutines has closed it
C27_NoSendOnClosed == panic = "none"

\* ------------------------------------- bytes received before the STREAMCLOSE
\* no StreamConn.Close of the application has been called
NoLocalClose ==
    /\ \A t \in Threads : call[t].op # "StreamClose"
    /\ \A r \in Rets : r.op # "StreamClose"

\* the StreamConn.Read call of t returns ConnectionClosed in this step, on a
\* CONNECTED connection whose reader has handled a STREAMCLOSE frame for the id
ReadsClosed(t) ==
    /\ pc[t] = "sr_loop" /\ pc'[t] = "idle"
    /\ ret'[Len(ret')].err = "ConnectionClosed"
    /\ state = CONNECTED
    /\ streams[call[t].h].id \in hist.closedIds

\* C28: a Read on a sub-stream that the peer has closed reports
\* ConnectionClosed only once the bytes the reader had appended to its buffer
\* have been returned
C28_BufferedBytesRead ==
    [][\A t \in Threads :
         (ReadsClosed(t) /\ NoLocalClose) => streams[call[t].h].buffer = <<>>]_vars

\* ------------------------------------------- the heartbeat of a closed client
\* Client.Close() of the application: c.closed.Store(true), then c.conn.Close()
UserClose(t) ==
    /\ nops < MaxOps
    /\ nops' = nops + 1
    /\ CloseCall(t)
    /\ client' = [client EXCEPT !.closed = TRUE]

\* the steps of close() and killGoroutines that a Close of a CONNECTED
\* connection and the workers it stops go through
ClosingShutdown(p) ==
    \/ CloseCAS(p) \/ CloseStore(p) \/ CloseCAS2(p)
    \/ Kill(p) \/ KillWait(p) \/ CloseFlush(p) \/ CloseConn(p)

\* the reactor of a client whose router holds the HEARTBEAT handler only
ClosingReactor(t) ==
    \/ RxTop(t) \/ RxRead(t) \/ RMPop(t) \/ RMFailed(t) \/ RMError(t) \/ RxDispatch(t)

\* the heartbeat worker while no write to the stream fails
ClosingHeartbeat(p) == HbSteps(p) \/ WMError(p)

\* the client with a thread that closes it
ClosingNext ==
    \/ FlushRecv \/ FlushFlush
    \/ ReadHeader \/ ReadFresh \/ ReadParse \/ ReadPush
    \/ \E p \in Procs : ClosingShutdown(p)
    \/ ClosingReactor("t1")
    \/ ClosingHeartbeat("heartbeat")
    \/ ServerEcho
    \/ UserClose("t2")

\* every goroutine that is able to take a step takes one in the end, and the
\* server answers in the end; the application need not call Close
ClosingFair ==
    /\ WF_vars(FlushRecv \/ FlushFlush)
    /\ WF_vars(ReadHeader \/ ReadFresh \/ ReadParse \/ ReadPush)
    /\ \A p \in Procs : WF_vars(ClosingShutdown(p))
    /\ WF_vars(ClosingReactor("t1"))
    /\ WF_vars(ClosingHeartbeat("heartbeat"))
    /\ WF_vars(ServerEcho)

SpecClosing == InitQuiet /\ [][ClosingNext]_vars /\ ClosingFair

\* C29: once Client.Close has been called, the heartbeat worker exits in the end
C29_HeartbeatExits == client.closed ~> client.heartbeat = "exit"
====
